---- MODULE Spec2Model ----
(***************************************************************************)
(* saimiris agent runtime: the probe dispatcher (agent/handler.rs), the    *)
(* per-instance send loops (agent/sender.rs) and the per-interface receive *)
(* loops (agent/receiver.rs).                                              *)
(***************************************************************************)
EXTENDS Integers, Sequences, FiniteSets, TLC

(***************************************************************************)
(* Bounds of the model.                                                    *)
(***************************************************************************)
MaxInst == 2          \* instances in config.caracat
MaxMsgs == 1          \* inbound messages in the routing specification
QueueCap == 2         \* capacity of a per-instance channel (channel(100), scaled down)
MaxTtlMsgs == 1       \* inbound messages in the TTL specification
MaxMeasureMsgs == 2   \* inbound messages in the measurement specification
MaxProbes == 2        \* probes in one payload
MaxReplies == 2        \* results of next_reply() in the receive specification
MaxReplySize == 3      \* the longest encode_reply text
MaxProdReplies == 3    \* replies captured in the producer specification
ReplyCap == 2          \* capacity of the reply channel
MaxPackets == 2       \* config.packets is 1..MaxPackets
MaxWire == 2          \* messages in the bytes of one payload
MaxCodecMsgs == 1     \* inbound messages in the codec specification
MaxHeaderMsgs == 2    \* inbound messages in the header specification
MaxRows == 2          \* records in the client's CSV file
MaxClientMsgs == 2    \* messages the client sends
MaxStartMsgs == 1      \* inbound messages in the startup specification
MaxIterations == 2     \* iterations of the healthcheck task
MaxClientProbes == 3   \* probes of one client invocation

(***************************************************************************)
(* Values.  A string that holds an IP address is modelled by what          *)
(* str::parse::<IpAddr>() makes of it: an address of family 4 or 6 with    *)
(* its bits (scaled down to 2-bit addresses), or a parse error.            *)
(***************************************************************************)
AgentId == "a1"
OtherKey == "a2"

NoIp == [kind |-> "none", fam |-> 0, bits |-> 0]          \* Option::None
EmptyIp == [kind |-> "empty", fam |-> 0, bits |-> 0]      \* String::new()
GarbageIp == [kind |-> "garbage", fam |-> 0, bits |-> 0]  \* a string that is no address
Addr(f, b) == [kind |-> "addr", fam |-> f, bits |-> b]

NoPrefix == [kind |-> "none", net |-> 0, len |-> 0]       \* Option::None
BadPrefix == [kind |-> "bad", net |-> 0, len |-> 0]       \* a string that is no prefix
Net(n, l) == [kind |-> "net", net |-> n, len |-> l]

NoTtl == [some |-> FALSE, v |-> 0]
SomeTtl(t) == [some |-> TRUE, v |-> t]

NoInfo == [some |-> FALSE, measurement_id |-> "none", end_of_measurement |-> FALSE]
Info(m, e) == [some |-> TRUE, measurement_id |-> m, end_of_measurement |-> e]

MeasurementIds == {"M1", "M2"}

RECURSIVE Pow2(_)
Pow2(n) == IF n <= 0 THEN 1 ELSE 2 * Pow2(n - 1)

\* ipnet::Ipv4Net::contains / Ipv6Net::contains on 2-bit addresses
PrefixContains(p, bits) ==
    (bits \div Pow2(2 - p.len)) = (p.net \div Pow2(2 - p.len))

\* config::validate_ip_against_prefixes(..).is_ok()
validate_ip_against_prefixes(ip_str, ipv4_prefix, ipv6_prefix) ==
    IF ip_str.kind # "addr" THEN FALSE
    ELSE IF ip_str.fam = 4
         THEN ipv4_prefix.kind = "net" /\ PrefixContains(ipv4_prefix, ip_str.bits)
         ELSE ipv6_prefix.kind = "net" /\ PrefixContains(ipv6_prefix, ip_str.bits)

has_prefix(cfg) ==
    cfg.src_ipv4_prefix.kind # "none" \/ cfg.src_ipv6_prefix.kind # "none"

MinOf(S) == CHOOSE x \in S : \A y \in S : x <= y

\* The registry handle() builds: "instance_<id>" -> the channel of the first
\* configuration with that id (a duplicate id keeps the first entry).
BuildSendersMap(configs) ==
    [id \in {configs[i].instance_id : i \in 1..Len(configs)} |->
        MinOf({i \in 1..Len(configs) : configs[i].instance_id = id})]

\* handle(): a channel's Sender lives on in the registry, or as the default
\* channel when it is the first one; every other clone is dropped at the end
\* of the setup iteration
HeldSenders(configs) ==
    [i \in 1..Len(configs) |->
        \/ i = 1
        \/ \E id \in DOMAIN BuildSendersMap(configs) :
              BuildSendersMap(configs)[id] = i]

NoTarget == [ok |-> FALSE, sender |-> 0, use_source_ip |-> FALSE]

PrefixMatches(map, configs, ip) ==
    {i \in 1..Len(configs) :
        /\ has_prefix(configs[i])
        /\ validate_ip_against_prefixes(ip, configs[i].src_ipv4_prefix,
                                        configs[i].src_ipv6_prefix)
        /\ configs[i].instance_id \in DOMAIN map}

DefaultMatches(map, configs) ==
    {i \in 1..Len(configs) :
        ~has_prefix(configs[i]) /\ configs[i].instance_id \in DOMAIN map}

\* variant: with no match and no default instance, fall back to the first
\* configured channel instead of failing
determine_target_sender_fallback(map, configs, sender_ip_from_header) ==
    IF sender_ip_from_header.kind # "none"
       /\ PrefixMatches(map, configs, sender_ip_from_header) # {}
    THEN [ok |-> TRUE,
          sender |-> map[configs[MinOf(PrefixMatches(map, configs,
                                         sender_ip_from_header))].instance_id],
          use_source_ip |-> TRUE]
    ELSE IF DefaultMatches(map, configs) # {}
    THEN [ok |-> TRUE,
          sender |-> map[configs[MinOf(DefaultMatches(map, configs))].instance_id],
          use_source_ip |-> FALSE]
    ELSE [ok |-> TRUE, sender |-> 1, use_source_ip |-> FALSE]

\* handler::determine_target_sender: Ok((Some(sender), flag)) or Err
determine_target_sender(map, configs, sender_ip_from_header) ==
    IF sender_ip_from_header.kind # "none"
       /\ PrefixMatches(map, configs, sender_ip_from_header) # {}
    THEN [ok |-> TRUE,
          sender |-> map[configs[MinOf(PrefixMatches(map, configs,
                                         sender_ip_from_header))].instance_id],
          use_source_ip |-> TRUE]
    ELSE IF DefaultMatches(map, configs) # {}
    THEN [ok |-> TRUE,
          sender |-> map[configs[MinOf(DefaultMatches(map, configs))].instance_id],
          use_source_ip |-> FALSE]
    ELSE NoTarget

(***************************************************************************)
(* Inbound messages.                                                       *)
(***************************************************************************)
NoValue == [kind |-> "absent", src_ip |-> NoIp, measurement_id |-> "none",
            end_of_measurement |-> "none"]
Json(ip, m, e) == [kind |-> "json", src_ip |-> ip, measurement_id |-> m,
                   end_of_measurement |-> e]
\* header values that are not a JSON text: bytes that are not UTF-8, and a
\* plain text such as the client writes in its top-level headers
NotUtf8 == [kind |-> "not_utf8", text |-> "none"]
Text(t) == [kind |-> "text", text |-> t]
Header(k, v) == [key |-> k, value |-> v]

NoPayload == [kind |-> "none", probes |-> <<>>]
Malformed == [kind |-> "malformed", probes |-> <<>>]
Probes(ps) == [kind |-> "probes", probes |-> ps]

\* An IpAddr: V4 with its 32 bits, or V6 with its low 32 bits and whether
\* the upper 96 bits are those of an IPv4-mapped address (::ffff:0:0/96).
IpV4(x) == [fam |-> 4, mapped |-> FALSE, lo |-> x]
IpV6(mapped, x) == [fam |-> 6, mapped |-> mapped, lo |-> x]

\* caracat::models::Probe
Probe(dst, sp, dp, ttl, proto) ==
    [dst_addr |-> dst, src_port |-> sp, dst_port |-> dp, ttl |-> ttl,
     protocol |-> proto]

\* the Data field dst_addr on the wire: its length and, for 16 bytes, the
\* address it spells
AddrBytes(len, mapped, x) == [len |-> len, mapped |-> mapped, lo |-> x]

\* probe::serialize_ip_addr
serialize_ip_addr(ip) ==
    IF ip.fam = 4 THEN AddrBytes(16, TRUE, ip.lo)
    ELSE AddrBytes(16, ip.mapped, ip.lo)

\* probe::serialize_protocol (L4 has no TCP)
serialize_protocol(protocol) ==
    CASE protocol = "UDP" -> "udp"
      [] protocol = "ICMP" -> "icmp"
      [] protocol = "ICMPv6" -> "icmpv6"

\* one Cap'n Proto message of the stream: well framed with its fields, cut
\* short by the end of the input, or with a broken segment table
WireMessage(dst, sp, dp, ttl, tag) ==
    [frame |-> "ok", dst_addr |-> dst, src_port |-> sp, dst_port |-> dp,
     ttl |-> ttl, protocol |-> tag]
Truncated == [frame |-> "truncated"]
Corrupt == [frame |-> "corrupt"]

\* probe::serialize_probe
serialize_probe(p) ==
    WireMessage(serialize_ip_addr(p.dst_addr), p.src_port, p.dst_port, p.ttl,
                serialize_protocol(p.protocol))

DecodeError == [ok |-> FALSE, probes |-> <<>>]

\* probe::deserialize_protocol
deserialize_protocol(tag) ==
    CASE tag = "udp" -> [ok |-> TRUE, v |-> "UDP"]
      [] tag = "icmp" -> [ok |-> TRUE, v |-> "ICMP"]
      [] tag = "icmpv6" -> [ok |-> TRUE, v |-> "ICMPv6"]
      [] OTHER -> [ok |-> FALSE, v |-> "none"]

\* probe::deserialize_ip_addr
deserialize_ip_addr(data) ==
    IF data.len # 16 THEN [ok |-> FALSE, v |-> IpV4(0)]
    ELSE IF data.mapped THEN [ok |-> TRUE, v |-> IpV4(data.lo)]
    ELSE [ok |-> TRUE, v |-> IpV6(FALSE, data.lo)]

\* probe::deserialize_single_probe_from_reader
deserialize_single_probe_from_reader(w) ==
    IF ~deserialize_ip_addr(w.dst_addr).ok \/ ~deserialize_protocol(w.protocol).ok
    THEN [ok |-> FALSE, v |-> w]
    ELSE [ok |-> TRUE,
          v |-> Probe(deserialize_ip_addr(w.dst_addr).v, w.src_port,
                      w.dst_port, w.ttl, deserialize_protocol(w.protocol).v)]

\* the loop of probe::deserialize_probes from the k-th message on:
\* read_message reports the end of the input, in or between messages, as
\* PrematureEndOfFile, which ends the loop; any other error is returned
RECURSIVE ReadMessages(_, _, _)
ReadMessages(wire, k, probes) ==
    IF k > Len(wire) THEN [ok |-> TRUE, probes |-> probes]
    ELSE IF wire[k].frame = "truncated" THEN [ok |-> TRUE, probes |-> probes]
    ELSE IF wire[k].frame = "corrupt" THEN DecodeError
    ELSE IF ~deserialize_single_probe_from_reader(wire[k]).ok THEN DecodeError
    ELSE ReadMessages(wire, k + 1,
             Append(probes, deserialize_single_probe_from_reader(wire[k]).v))

\* a payload given by its bytes, as a sequence of messages
Bytes(wire) == [kind |-> "bytes", probes |-> <<>>, wire |-> wire]

\* probe::deserialize_probes on the payload bytes; a payload that is not
\* spelled out stands for any bytes that decode to its probes, or to an error
deserialize_probes(payload) ==
    IF payload.kind = "bytes" THEN ReadMessages(payload.wire, 1, <<>>)
    ELSE [ok |-> payload.kind = "probes", probes |-> payload.probes]

\* str::parse::<IpAddr> on the texts of the model
ParseIpAddr(text) ==
    CASE text = "10.0.0.1" -> [ok |-> TRUE, v |-> IpV4(0)]
      [] text = "10.0.0.2" -> [ok |-> TRUE, v |-> IpV4(1)]
      [] text = "::1" -> [ok |-> TRUE, v |-> IpV6(FALSE, 0)]
      [] text = "::ffff:10.0.0.1" -> [ok |-> TRUE, v |-> IpV6(TRUE, 0)]
      [] OTHER -> [ok |-> FALSE, v |-> IpV4(0)]

\* str::parse::<u16> and str::parse::<u8> on the texts of the model
ParseU16(text) ==
    CASE text = "24000" -> [ok |-> TRUE, v |-> 24000]
      [] text = "33434" -> [ok |-> TRUE, v |-> 33434]
      [] text = "1" -> [ok |-> TRUE, v |-> 1]
      [] text = "2" -> [ok |-> TRUE, v |-> 2]
      [] OTHER -> [ok |-> FALSE, v |-> 0]
ParseU8(text) ==
    CASE text = "1" -> [ok |-> TRUE, v |-> 1]
      [] text = "2" -> [ok |-> TRUE, v |-> 2]
      [] OTHER -> [ok |-> FALSE, v |-> 0]

\* str::to_lowercase on the protocol spellings of the model
ToLowercase(text) ==
    CASE text \in {"UDP", "Udp", "udp"} -> "udp"
      [] text \in {"ICMP", "Icmp", "icmp"} -> "icmp"
      [] text \in {"ICMPv6", "ICMPV6", "icmpv6"} -> "icmpv6"
      [] text \in {"TCP", "tcp"} -> "tcp"
      [] OTHER -> text

\* the match on the protocol text in read_probes_from_csv
ParseProtocol(text) ==
    CASE ToLowercase(text) = "udp" -> [ok |-> TRUE, v |-> "UDP"]
      [] ToLowercase(text) = "icmp" -> [ok |-> TRUE, v |-> "ICMP"]
      [] ToLowercase(text) = "icmpv6" -> [ok |-> TRUE, v |-> "ICMPv6"]
      [] OTHER -> [ok |-> FALSE, v |-> "none"]

\* the body of the loop of read_probes_from_csv for one record, the
\* sequence of its trimmed fields
ReadCsvRecord(record) ==
    IF Len(record) < 5 THEN [ok |-> FALSE, v |-> record]
    ELSE IF \/ ~ParseIpAddr(record[1]).ok
            \/ ~ParseU16(record[2]).ok
            \/ ~ParseU16(record[3]).ok
            \/ ~ParseU8(record[4]).ok
            \/ ~ParseProtocol(record[5]).ok
    THEN [ok |-> FALSE, v |-> record]
    ELSE [ok |-> TRUE,
          v |-> Probe(ParseIpAddr(record[1]).v, ParseU16(record[2]).v,
                      ParseU16(record[3]).v, ParseU8(record[4]).v,
                      ParseProtocol(record[5]).v)]

\* the loop of read_probes_from_csv from the k-th record on; the csv reader
\* (not flexible) fails on a record whose length differs from the first's
RECURSIVE ReadCsvFrom(_, _, _)
ReadCsvFrom(records, k, probes) ==
    IF k > Len(records) THEN [ok |-> TRUE, probes |-> probes]
    ELSE IF Len(records[k]) # Len(records[1]) THEN DecodeError
    ELSE IF ~ReadCsvRecord(records[k]).ok THEN DecodeError
    ELSE ReadCsvFrom(records, k + 1, Append(probes, ReadCsvRecord(records[k]).v))

\* client::handler::read_probes_from_csv
read_probes_from_csv(records) == ReadCsvFrom(records, 1, <<>>)

\* the length in bytes of a record written by write_message_to_words: the
\* segment table, the root pointer, one data word, one pointer word and the
\* dst_addr bytes padded to words
WireLen(w) == 8 + 8 + 8 + 8 + 8 * ((w.dst_addr.len + 7) \div 8)

RECURSIVE MessageLen(_)
MessageLen(wire) ==
    IF wire = <<>> THEN 0 ELSE WireLen(Head(wire)) + MessageLen(Tail(wire))

\* variant: the probe that does not fit is left out
RECURSIVE CreateMessagesDropping(_, _, _, _)
CreateMessagesDropping(probes, max, msgs, current_message) ==
    IF probes = <<>>
    THEN (IF current_message # <<>> THEN Append(msgs, current_message) ELSE msgs)
    ELSE LET message_bin == serialize_probe(Head(probes))
         IN IF MessageLen(current_message) + WireLen(message_bin) > max
            THEN CreateMessagesDropping(Tail(probes), max,
                     Append(msgs, current_message), <<>>)
            ELSE CreateMessagesDropping(Tail(probes), max, msgs,
                     Append(current_message, message_bin))

\* client::producer::create_messages, the loop over the probes left with
\* the messages pushed so far and the message being filled
RECURSIVE CreateMessagesFrom(_, _, _, _)
CreateMessagesFrom(probes, max, msgs, current_message) ==
    IF probes = <<>>
    THEN (IF current_message # <<>> THEN Append(msgs, current_message) ELSE msgs)
    ELSE LET message_bin == serialize_probe(Head(probes))
         IN IF MessageLen(current_message) + WireLen(message_bin) > max
            THEN CreateMessagesFrom(Tail(probes), max,
                     Append(msgs, current_message), <<message_bin>>)
            ELSE CreateMessagesFrom(Tail(probes), max, msgs,
                     Append(current_message, message_bin))

create_messages(probes, message_max) ==
    CreateMessagesFrom(probes, message_max, <<>>, <<>>)

HeaderScanInit == [intended |-> FALSE, sender_ip |-> NoIp, minfo |-> NoInfo]

\* variant: the header key is not compared with the agent id
ScanHeaderAnyKey(acc, h) ==
    IF h.value.kind # "json" THEN [acc EXCEPT !.intended = TRUE]
    ELSE [intended |-> TRUE,
          sender_ip |-> h.value.src_ip,
          minfo |-> acc.minfo]

\* the body of `for header in headers.iter()` in handle()
ScanHeader(acc, h) ==
    IF h.key # AgentId THEN acc
    ELSE IF h.value.kind # "json" THEN [acc EXCEPT !.intended = TRUE]
    ELSE [intended |-> TRUE,
          sender_ip |-> h.value.src_ip,
          minfo |-> IF h.value.measurement_id # "none"
                       /\ h.value.end_of_measurement # "none"
                    THEN Info(h.value.measurement_id,
                              h.value.end_of_measurement = "true")
                    ELSE acc.minfo]

RECURSIVE ScanHeadersFrom(_, _, _)
ScanHeadersFrom(hs, k, acc) ==
    IF k > Len(hs) THEN acc
    ELSE ScanHeadersFrom(hs, k + 1, ScanHeader(acc, hs[k]))

ScanHeaders(hs) == ScanHeadersFrom(hs, 1, HeaderScanInit)

(***************************************************************************)
(* State.                                                                  *)
(***************************************************************************)
VARIABLES
    caracat,             \* config.caracat: the instance configurations, in order
    gateway,             \* [url, agent_key]: which gateway settings are present
    probe_senders_map,   \* the dispatcher's registry: instance id -> channel
    tx_probe_to_sender,  \* per instance: a Sender of its channel exists
    queues,              \* per instance: the content of its channel
    dpc,                 \* dispatcher: "recv" | "sleep" | "handle"
    message,             \* the message being handled
    nrecv,               \* messages received so far
    commits,             \* commit_message calls for the current message
    outcome,             \* what handle() did with the last message
    spc,                 \* per send loop: "wait" | "recv" | "create" | "send" |
                         \* "exited"
    stopped,             \* per send loop: its stop flag
    batch,               \* per send loop: the ProbesWithSource being processed
    sent_count_batch,    \* per send loop
    caracat_senders,     \* per send loop: keys of the cached CaracatSenders
    waits,               \* per send loop: rate_limiter.wait() calls made for
                         \* the batch being processed
    probes_sent_in_measurement, \* per send loop: measurement id -> count
    metrics,             \* the counters saimiris_sender_*
    reports,             \* per send loop: the last status report POSTed
    history,             \* per send loop: the batches with measurement info it finished
    out_enable,          \* config.kafka.out_enable
    hpc,                 \* main and handle(): "load" | "create" | "setup" |
                         \* "running" | "exited"
    raw_caracat,         \* the caracat list of the configuration file
    auth_protocol,       \* config.kafka.auth_protocol
    metrics_address,     \* agent.metrics_address of the configuration file
    exit_status,         \* "none" while the process runs, then "zero" | "nonzero"
    reply_open,          \* the receiving end of the reply channel exists
    reply_queue,         \* the content of the reply channel
    rpc,                 \* per receive loop: "init" | "recv" | "send" | "exited"
    rstopped,            \* per receive loop: its stop flag
    reply,               \* per receive loop: the reply of the current iteration
    nreplies,            \* results next_reply() has returned so far
    receiver_metrics,    \* the counters saimiris_receiver_*
    message_max_bytes,   \* config.kafka.message_max_bytes
    ppc,                 \* produce(): "init" | "begin" | "collect" | "dead"
    final_message,       \* produce(): the records of the batch being built
    additional_message,  \* produce(): the reply carried over to the next batch
    published,           \* the payloads handed to producer.send, in order
    agent_secret,        \* config.gateway.agent_secret is present
    gpc,                 \* healthcheck task: "off" | "get" | "register" |
                         \* "config" | "health" | "sleep"
    needs_registration,  \* healthcheck task: the flag of the iteration
    requests,            \* healthcheck task: the requests of the iteration
                         \* so far, each with its outcome
    niter,               \* healthcheck task: iterations started so far
    cpc,                 \* client produce(): "start" | "send" | "done"
    client_probes,       \* client: the probes handed to create_messages
    client_max_bytes,    \* client: config.kafka.message_max_bytes
    messages,            \* client: what create_messages returned
    client_sent          \* client: the records handed to producer.send, each
                         \* with its end_of_measurement header, in order

vars == <<caracat, gateway, probe_senders_map, tx_probe_to_sender, queues, dpc, message, nrecv,
          commits, outcome, spc, stopped, batch, sent_count_batch,
          caracat_senders, waits, probes_sent_in_measurement, metrics, reports,
          history, out_enable, hpc, reply_open, reply_queue, rpc, rstopped,
          reply, nreplies, receiver_metrics, message_max_bytes, ppc,
          final_message, additional_message, published, raw_caracat,
          auth_protocol, metrics_address, exit_status, agent_secret, gpc,
          needs_registration, requests, niter, cpc, client_probes,
          client_max_bytes, messages, client_sent>>

mainVars == <<raw_caracat, auth_protocol, metrics_address, exit_status>>
gatewayVars == <<agent_secret, gpc, needs_registration, requests, niter>>
clientVars == <<cpc, client_probes, client_max_bytes, messages, client_sent>>
configVars == <<caracat, gateway, probe_senders_map, tx_probe_to_sender, out_enable,
                message_max_bytes, mainVars, gatewayVars, clientVars>>
dispatcherVars == <<dpc, message, nrecv, commits, outcome>>
sendLoopVars == <<spc, stopped, batch, sent_count_batch, caracat_senders, waits,
                  probes_sent_in_measurement, metrics, reports, history>>
receiverVars == <<hpc, reply_open, reply_queue, rpc, rstopped, reply, nreplies,
                  receiver_metrics>>
producerVars == <<ppc, final_message, additional_message, published>>

Instances == 1..Len(caracat)

NoMessage == [payload |-> NoPayload, headers |-> <<>>]
NoBatch == [probes |-> <<>>, source_ip |-> EmptyIp, measurement_info |-> NoInfo]
NoReport == [some |-> FALSE, measurement_id |-> "none", sent_probes |-> 0,
             is_complete |-> FALSE, delivered |-> FALSE]

\* an entry of the HashMap probes_sent_in_measurement, or its absence
NoEntry == [present |-> FALSE, n |-> 0]
Entry(k) == [present |-> TRUE, n |-> k]

CaracatConfig(id, v4, v6, lo, hi, pk) ==
    [instance_id |-> id, interface |-> "eth0",
     src_ipv4_prefix |-> v4, src_ipv6_prefix |-> v6,
     min_ttl |-> lo, max_ttl |-> hi, packets |-> pk, integrity_check |-> FALSE,
     batch_size |-> 2]

GatewayFull == [url |-> TRUE, agent_key |-> TRUE]

\* the state handle() is in when it enters its main loop
InitSend(configs, gw) ==
    /\ raw_caracat = configs
    /\ auth_protocol = "PLAINTEXT"
    /\ metrics_address = "0.0.0.0:8080"
    /\ exit_status = "none"
    /\ caracat = configs
    /\ gateway = gw
    /\ agent_secret = TRUE
    /\ gpc = IF gw.url /\ gw.agent_key THEN "get" ELSE "off"
    /\ needs_registration = FALSE
    /\ requests = <<>>
    /\ niter = 0
    /\ cpc = "start"
    /\ client_probes = <<>>
    /\ client_max_bytes = 0
    /\ messages = <<>>
    /\ client_sent = <<>>
    /\ probe_senders_map = BuildSendersMap(configs)
    /\ tx_probe_to_sender = HeldSenders(configs)
    /\ queues = [i \in 1..Len(configs) |-> <<>>]
    /\ dpc = "recv"
    /\ message = NoMessage
    /\ nrecv = 0
    /\ commits = 0
    /\ outcome = "none"
    /\ spc = [i \in 1..Len(configs) |-> "wait"]
    /\ stopped = [i \in 1..Len(configs) |-> FALSE]
    /\ batch = [i \in 1..Len(configs) |-> NoBatch]
    /\ sent_count_batch = [i \in 1..Len(configs) |-> 0]
    /\ caracat_senders = [i \in 1..Len(configs) |-> {}]
    /\ waits = [i \in 1..Len(configs) |-> 0]
    /\ probes_sent_in_measurement =
           [i \in 1..Len(configs) |-> [m \in MeasurementIds |-> NoEntry]]
    /\ metrics = [filtered_low |-> 0, filtered_high |-> 0, sent |-> 0, failed |-> 0]
    /\ reports = [i \in 1..Len(configs) |-> NoReport]
    /\ history = [i \in 1..Len(configs) |-> <<>>]

(***************************************************************************)
(* The dispatcher: the main loop of handle().                              *)
(***************************************************************************)
\* consumer.recv() returns a message
ConsumerRecv(m, maxMsgs) ==
    /\ dpc = "recv"
    /\ nrecv < maxMsgs
    /\ dpc' = "handle"
    /\ message' = m
    /\ nrecv' = nrecv + 1
    /\ commits' = 0
    /\ UNCHANGED <<outcome, queues, configVars, receiverVars, producerVars, sendLoopVars>>

\* consumer.recv() returns an error: sleep 5 s, then `continue`
ConsumerRecvError ==
    /\ dpc = "recv"
    /\ dpc' = "sleep"
    /\ UNCHANGED <<message, nrecv, commits, outcome, queues, configVars, receiverVars, producerVars, sendLoopVars>>

ConsumerRetry ==
    /\ dpc = "sleep"
    /\ dpc' = "recv"
    /\ UNCHANGED <<message, nrecv, commits, outcome, queues, configVars, receiverVars, producerVars, sendLoopVars>>

\* consumer.commit_message(&message, CommitMode::Async), then back to recv()
Commit(what) ==
    /\ commits' = commits + 1
    /\ outcome' = what
    /\ dpc' = "recv"
    /\ message' = NoMessage
    /\ UNCHANGED nrecv

\* variant: the send does not look at the capacity
TrySendUnbounded(q) == spc[q] # "exited"

\* Sender::try_send: Ok unless the channel is full or its receiver is gone
TrySendOk(q) == spc[q] # "exited" /\ Len(queues[q]) < QueueCap

ProbesWithSource(ps, ip, info) ==
    [probes |-> ps, source_ip |-> ip, measurement_info |-> info]

\* what the dispatcher sends for a routed message
BatchFor(probes_to_send, scan, target) ==
    ProbesWithSource(probes_to_send,
                     IF target.use_source_ip THEN scan.sender_ip ELSE EmptyIp,
                     scan.minfo)

\* variant: the rejection path goes back to recv() without a commit
DispatchRejectUncommitted(probes_to_send, scan) ==
    LET target == determine_target_sender(probe_senders_map, caracat,
                                          scan.sender_ip)
    IN IF ~target.ok
       THEN /\ outcome' = "rejected"
            /\ dpc' = "recv"
            /\ message' = NoMessage
            /\ UNCHANGED <<commits, nrecv, queues>>
       ELSE IF TrySendOk(target.sender)
       THEN /\ queues' = [queues EXCEPT ![target.sender] =
                            Append(@, BatchFor(probes_to_send, scan, target))]
            /\ Commit("queued")
       ELSE /\ Commit(IF spc[target.sender] = "exited"
                      THEN "queue_closed" ELSE "queue_full")
            /\ UNCHANGED queues

\* the outcome of one iteration for a message whose payload decoded to
\* a non-empty probe list
Dispatch(probes_to_send, scan) ==
    LET target == determine_target_sender(probe_senders_map, caracat,
                                          scan.sender_ip)
    IN IF ~target.ok
       THEN /\ Commit("rejected")
            /\ UNCHANGED queues
       ELSE IF TrySendOk(target.sender)
       THEN /\ queues' = [queues EXCEPT ![target.sender] =
                            Append(@, BatchFor(probes_to_send, scan, target))]
            /\ Commit("queued")
       ELSE /\ Commit(IF spc[target.sender] = "exited"
                      THEN "queue_closed" ELSE "queue_full")
            /\ UNCHANGED queues

\* one iteration of the main loop, from the received message to its commit
HandleMessage ==
    /\ dpc = "handle"
    /\ LET scan == ScanHeaders(message.headers)
           decoded == deserialize_probes(message.payload)
       IN IF message.payload.kind = "none"
          THEN Commit("empty_payload") /\ UNCHANGED queues
          ELSE IF ~scan.intended /\ Len(caracat) # 0
          THEN Commit("not_intended") /\ UNCHANGED queues
          ELSE IF decoded.ok /\ decoded.probes = <<>>
          THEN Commit("empty_probes") /\ UNCHANGED queues
          ELSE IF ~decoded.ok
          THEN Commit("decode_error") /\ UNCHANGED queues
          ELSE Dispatch(decoded.probes, scan)
    /\ UNCHANGED <<configVars, receiverVars, producerVars, sendLoopVars>>

(***************************************************************************)
(* A send loop: the thread SendLoop::new spawns for instance i.            *)
(***************************************************************************)
\* the key of the CaracatSender cache
SenderKeyOf(source_ip) ==
    [default |-> source_ip.kind = "empty", ip |-> source_ip]

\* SendLoop::stop sets the flag (and joins the thread)
Stop(i) ==
    /\ ~stopped[i]
    /\ stopped' = [stopped EXCEPT ![i] = TRUE]
    /\ UNCHANGED <<spc, batch, sent_count_batch, caracat_senders, waits,
                   probes_sent_in_measurement, metrics, reports, history,
                   queues, configVars, receiverVars, producerVars, dispatcherVars>>

\* the thread ends: its Receiver is dropped, and with it the queued batches
Exit(i) ==
    /\ spc' = [spc EXCEPT ![i] = "exited"]
    /\ batch' = [batch EXCEPT ![i] = NoBatch]
    /\ queues' = [queues EXCEPT ![i] = <<>>]

\* loop head with the stop flag set: break
SendLoopStopped(i) ==
    /\ spc[i] = "wait"
    /\ stopped[i]
    /\ Exit(i)
    /\ UNCHANGED <<stopped, sent_count_batch, caracat_senders, waits,
                   probes_sent_in_measurement, metrics, reports, history,
                   configVars, receiverVars, producerVars, dispatcherVars>>

\* variant: a closed channel ends the loop whatever is still queued
SendLoopClosedEarly(i) ==
    /\ spc[i] = "wait"
    /\ ~stopped[i]
    /\ ~tx_probe_to_sender[i]
    /\ Exit(i)
    /\ UNCHANGED <<stopped, sent_count_batch, caracat_senders, waits,
                   probes_sent_in_measurement, metrics, reports, history,
                   configVars, receiverVars, producerVars, dispatcherVars>>

\* rx.recv() returns None, the channel being empty with no Sender left: break
SendLoopClosed(i) ==
    /\ spc[i] = "wait"
    /\ ~stopped[i]
    /\ queues[i] = <<>>
    /\ ~tx_probe_to_sender[i]
    /\ Exit(i)
    /\ UNCHANGED <<stopped, sent_count_batch, caracat_senders, waits,
                   probes_sent_in_measurement, metrics, reports, history,
                   configVars, receiverVars, producerVars, dispatcherVars>>

\* the owner of the Senders, handle() with its registry and its default
\* channel, lets go of them
SendersHeld == \E i \in Instances : tx_probe_to_sender[i]
DropSenders ==
    /\ SendersHeld
    /\ tx_probe_to_sender' = [i \in Instances |-> FALSE]
    /\ UNCHANGED <<caracat, gateway, probe_senders_map, out_enable,
                   message_max_bytes, mainVars, gatewayVars, clientVars, queues,
                   dispatcherVars,
                   sendLoopVars, receiverVars, producerVars>>

\* rx.recv() returns a batch; look up the CaracatSender for its key
RecvBatch(i) ==
    /\ queues[i] # <<>>
    /\ queues' = [queues EXCEPT ![i] = Tail(@)]
    /\ LET p == Head(queues[i])
           key == SenderKeyOf(p.source_ip)
       IN IF key \in caracat_senders[i]
          THEN /\ spc' = [spc EXCEPT ![i] = "send"]
               /\ batch' = [batch EXCEPT ![i] = p]
          ELSE IF ~key.default /\ p.source_ip.kind # "addr"
          THEN \* source_ip.parse() fails: `continue`
               /\ spc' = [spc EXCEPT ![i] = "wait"]
               /\ UNCHANGED batch
          ELSE /\ spc' = [spc EXCEPT ![i] = "create"]
               /\ batch' = [batch EXCEPT ![i] = p]
    /\ sent_count_batch' = [sent_count_batch EXCEPT ![i] = 0]
    /\ waits' = [waits EXCEPT ![i] = 0]
    /\ UNCHANGED <<stopped, caracat_senders, probes_sent_in_measurement,
                   metrics, reports, history, configVars, receiverVars, producerVars, dispatcherVars>>

\* the loop head finds the stop flag clear and rx.recv() returns a batch
SendLoopRecv(i) ==
    /\ spc[i] = "wait"
    /\ ~stopped[i]
    /\ RecvBatch(i)

\* the same in two steps: the loop head finds the stop flag clear and the
\* thread blocks in rx.recv(), which later returns a batch whatever the
\* flag has become
SendLoopHead(i) ==
    /\ spc[i] = "wait"
    /\ ~stopped[i]
    /\ spc' = [spc EXCEPT ![i] = "recv"]
    /\ UNCHANGED <<stopped, batch, sent_count_batch, caracat_senders, waits,
                   probes_sent_in_measurement, metrics, reports, history,
                   queues, configVars, receiverVars, producerVars, dispatcherVars>>

SendLoopWake(i) ==
    /\ spc[i] = "recv"
    /\ RecvBatch(i)

\* variant: a failed construction leaves an entry for the key in the cache
SendLoopCreateCached(i) ==
    /\ spc[i] = "create"
    /\ caracat_senders' = [caracat_senders EXCEPT ![i] =
                             @ \cup {SenderKeyOf(batch[i].source_ip)}]
    /\ \E created \in BOOLEAN :
          IF created
          THEN /\ spc' = [spc EXCEPT ![i] = "send"]
               /\ UNCHANGED batch
          ELSE /\ spc' = [spc EXCEPT ![i] = "wait"]
               /\ batch' = [batch EXCEPT ![i] = NoBatch]
    /\ UNCHANGED <<stopped, sent_count_batch, waits, probes_sent_in_measurement,
                   metrics, reports, history, queues, configVars, receiverVars, producerVars, dispatcherVars>>

\* CaracatSender::new under the 5 s timeout: a sender, or an error
\* (construction error, panic of the blocking task, timeout)
SendLoopCreate(i) ==
    /\ spc[i] = "create"
    /\ \E created \in BOOLEAN :
          IF created
          THEN /\ caracat_senders' = [caracat_senders EXCEPT ![i] =
                                        @ \cup {SenderKeyOf(batch[i].source_ip)}]
               /\ spc' = [spc EXCEPT ![i] = "send"]
               /\ UNCHANGED batch
          ELSE /\ spc' = [spc EXCEPT ![i] = "wait"]
               /\ batch' = [batch EXCEPT ![i] = NoBatch]
               /\ UNCHANGED caracat_senders
    /\ UNCHANGED <<stopped, sent_count_batch, waits, probes_sent_in_measurement,
                   metrics, reports, history, queues, configVars, receiverVars, producerVars, dispatcherVars>>

CountTrue(f) == Cardinality({k \in DOMAIN f : f[k]})

TtlTooLow(cfg, ttl) == cfg.min_ttl.some /\ ttl < cfg.min_ttl.v
\* variant: the comparison with max_ttl is not strict
TtlTooHighOrEqual(cfg, ttl) == cfg.max_ttl.some /\ ttl >= cfg.max_ttl.v
TtlTooHigh(cfg, ttl) == cfg.max_ttl.some /\ ttl > cfg.max_ttl.v

\* variant: the first failed send ends the copies of the probe
RECURSIVE SendPacketsUntilError(_, _, _, _)
SendPacketsUntilError(cfg, sends, k, acc) ==
    IF k > cfg.packets \/ acc.failed > 0 THEN acc
    ELSE LET count == acc.sent_count_batch + (IF sends[k] THEN 1 ELSE 0)
         IN SendPacketsUntilError(cfg, sends, k + 1,
                [sent_count_batch |-> count,
                 failed |-> acc.failed + (IF sends[k] THEN 0 ELSE 1),
                 waits |-> acc.waits + (IF count % cfg.batch_size = 0 /\ count > 0
                                        THEN 1 ELSE 0)])

\* `for i in 0..config.packets` from the k-th copy on: send is Ok or Err,
\* then the test on sent_count_batch that calls rate_limiter.wait()
RECURSIVE SendPackets(_, _, _, _)
SendPackets(cfg, sends, k, acc) ==
    IF k > cfg.packets THEN acc
    ELSE LET count == acc.sent_count_batch + (IF sends[k] THEN 1 ELSE 0)
         IN SendPackets(cfg, sends, k + 1,
                [sent_count_batch |-> count,
                 failed |-> acc.failed + (IF sends[k] THEN 0 ELSE 1),
                 waits |-> acc.waits + (IF count % cfg.batch_size = 0 /\ count > 0
                                        THEN 1 ELSE 0)])

\* variant: the stop flag is not sampled between probes
SendLoopProbeUnchecked(i) ==
    /\ spc[i] = "send"
    /\ batch[i].probes # <<>>
    /\ IF FALSE
       THEN /\ Exit(i)
            /\ UNCHANGED <<sent_count_batch, waits, metrics>>
       ELSE /\ batch' = [batch EXCEPT ![i].probes = Tail(@)]
            /\ UNCHANGED <<spc, queues>>
            /\ LET ttl == Head(batch[i].probes)
               IN IF TtlTooLow(caracat[i], ttl)
                  THEN /\ metrics' = [metrics EXCEPT !.filtered_low = @ + 1]
                       /\ UNCHANGED <<sent_count_batch, waits>>
                  ELSE IF TtlTooHigh(caracat[i], ttl)
                  THEN /\ metrics' = [metrics EXCEPT !.filtered_high = @ + 1]
                       /\ UNCHANGED <<sent_count_batch, waits>>
                  ELSE \E sends \in [1..caracat[i].packets -> BOOLEAN] :
                       LET done == SendPackets(caracat[i], sends, 1,
                                       [sent_count_batch |-> sent_count_batch[i],
                                        failed |-> 0, waits |-> waits[i]])
                       IN /\ metrics' = [metrics EXCEPT
                                !.sent = @ + (done.sent_count_batch - sent_count_batch[i]),
                                !.failed = @ + done.failed]
                          /\ sent_count_batch' = [sent_count_batch EXCEPT ![i] =
                                                    done.sent_count_batch]
                          /\ waits' = [waits EXCEPT ![i] = done.waits]
    /\ UNCHANGED <<stopped, caracat_senders, probes_sent_in_measurement,
                   reports, history, configVars, receiverVars, producerVars, dispatcherVars>>

\* one iteration of `for probe in probes`: stop check, TTL filters, then
\* config.packets calls of caracat_sender.send, each Ok or Err
SendLoopProbe(i) ==
    /\ spc[i] = "send"
    /\ batch[i].probes # <<>>
    /\ IF stopped[i]
       THEN /\ Exit(i)
            /\ UNCHANGED <<sent_count_batch, waits, metrics>>
       ELSE /\ batch' = [batch EXCEPT ![i].probes = Tail(@)]
            /\ UNCHANGED <<spc, queues>>
            /\ LET ttl == Head(batch[i].probes)
               IN IF TtlTooLow(caracat[i], ttl)
                  THEN /\ metrics' = [metrics EXCEPT !.filtered_low = @ + 1]
                       /\ UNCHANGED <<sent_count_batch, waits>>
                  ELSE IF TtlTooHigh(caracat[i], ttl)
                  THEN /\ metrics' = [metrics EXCEPT !.filtered_high = @ + 1]
                       /\ UNCHANGED <<sent_count_batch, waits>>
                  ELSE \E sends \in [1..caracat[i].packets -> BOOLEAN] :
                       LET done == SendPackets(caracat[i], sends, 1,
                                       [sent_count_batch |-> sent_count_batch[i],
                                        failed |-> 0, waits |-> waits[i]])
                       IN /\ metrics' = [metrics EXCEPT
                                !.sent = @ + (done.sent_count_batch - sent_count_batch[i]),
                                !.failed = @ + done.failed]
                          /\ sent_count_batch' = [sent_count_batch EXCEPT ![i] =
                                                    done.sent_count_batch]
                          /\ waits' = [waits EXCEPT ![i] = done.waits]
    /\ UNCHANGED <<stopped, caracat_senders, probes_sent_in_measurement,
                   reports, history, configVars, receiverVars, producerVars, dispatcherVars>>

\* variant: the report is made when a url is set and no agent key
GatewayUrlOnly == gateway.url /\ ~gateway.agent_key
GatewayConfigured == gateway.url /\ gateway.agent_key

\* probes_sent_in_measurement.entry(id).or_insert(0) += sent_count_batch
AddSent(counter, id, n) == [counter EXCEPT ![id] = Entry(@.n + n)]

\* probes_sent_in_measurement.remove(id)
RemoveEntry(counter, id) == [counter EXCEPT ![id] = NoEntry]

\* the counter after the batch: the entry is removed only on the gateway path
CounterAfterBatch(counter, info, n) ==
    IF GatewayConfigured /\ info.end_of_measurement
    THEN RemoveEntry(AddSent(counter, info.measurement_id, n), info.measurement_id)
    ELSE AddSent(counter, info.measurement_id, n)

\* after the last probe: account the batch and report it to the gateway
SendLoopFinish(i) ==
    /\ spc[i] = "send"
    /\ batch[i].probes = <<>>
    /\ spc' = [spc EXCEPT ![i] = "wait"]
    /\ batch' = [batch EXCEPT ![i] = NoBatch]
    /\ LET info == batch[i].measurement_info
           n == sent_count_batch[i]
       IN IF ~info.some
          THEN UNCHANGED <<probes_sent_in_measurement, reports, history>>
          ELSE /\ probes_sent_in_measurement' =
                    [probes_sent_in_measurement EXCEPT ![i] =
                        CounterAfterBatch(@, info, n)]
               /\ history' = [history EXCEPT ![i] = Append(@,
                    [measurement_id |-> info.measurement_id, sent |-> n,
                     end_of_measurement |-> info.end_of_measurement])]
               /\ IF GatewayConfigured
                  THEN \E delivered \in BOOLEAN :
                          reports' = [reports EXCEPT ![i] =
                             [some |-> TRUE,
                              measurement_id |-> info.measurement_id,
                              sent_probes |->
                                  AddSent(probes_sent_in_measurement[i],
                                          info.measurement_id, n)[info.measurement_id].n,
                              is_complete |-> info.end_of_measurement,
                              delivered |-> delivered]]
                  ELSE UNCHANGED reports
    /\ waits' = [waits EXCEPT ![i] = 0]
    /\ UNCHANGED <<stopped, sent_count_batch, caracat_senders, metrics, queues,
                   configVars, receiverVars, producerVars, dispatcherVars>>


(***************************************************************************)
(* The receive loops, one per interface, and the reply channel.            *)
(***************************************************************************)
NoReply == [some |-> FALSE, valid_for |-> {}, iface |-> "none", seq |-> 0,
            size |-> 0]
\* a reply captured on interface f as the seq-th result of next_reply(), whose
\* encode_reply text is size bytes long
Captured(ids, f, seq, size) ==
    [some |-> TRUE, valid_for |-> ids, iface |-> f, seq |-> seq, size |-> size]
Reply(ids) == Captured(ids, "none", 0, 1)

\* encode_reply(agent_id, reply).len()
EncodedLen(r) == r.size

RECURSIVE SumLen(_)
SumLen(records) ==
    IF records = <<>> THEN 0
    ELSE EncodedLen(Head(records)) + SumLen(Tail(records))

\* final_message.len(): every record pushed is followed by "\n"
FinalLen(records) == SumLen(records) + Len(records)

\* the payload sent: final_message after the last "\n" is popped
PayloadLen(records) == FinalLen(records) - 1

\* Reply::is_valid(instance_id): the reply's checksum is the one of a probe
\* sent with this instance id
is_valid(r, instance_id) == instance_id \in r.valid_for

\* unique_interfaces: the keys, and the configurations of one key in order
InterfacesOf(configs) == {configs[i].interface : i \in 1..Len(configs)}
configs_for_interface(configs, f) ==
    SelectSeq(configs, LAMBDA c : c.interface = f)
representative_cfg(f) == configs_for_interface(caracat, f)[1]
instance_ids_for_interface(f) ==
    {configs_for_interface(caracat, f)[k].instance_id :
        k \in 1..Len(configs_for_interface(caracat, f))}
Interfaces == InterfacesOf(caracat)

\* variant: the reply has to validate under every instance id
is_valid_for_every_instance(r, valid_instance_ids) ==
    \A instance_id \in valid_instance_ids : is_valid(r, instance_id)

\* ReceiveLoop::is_valid_for_any_instance
is_valid_for_any_instance(r, valid_instance_ids) ==
    \E instance_id \in valid_instance_ids : is_valid(r, instance_id)

\* the condition under which the loop of interface f sends the reply on
Accepted(f, r) ==
    \/ ~representative_cfg(f).integrity_check
    \/ /\ representative_cfg(f).integrity_check
       /\ is_valid_for_any_instance(r, instance_ids_for_interface(f))

InitReceive(configs, oe) ==
    /\ out_enable = oe
    /\ hpc = "setup"
    /\ reply_open = TRUE
    /\ reply_queue = <<>>
    /\ rpc = [f \in InterfacesOf(configs) |-> "init"]
    /\ rstopped = [f \in InterfacesOf(configs) |-> FALSE]
    /\ reply = [f \in InterfacesOf(configs) |-> NoReply]
    /\ nreplies = 0
    /\ receiver_metrics = [received |-> 0, invalid |-> 0, error |-> 0]

InitProducer(max_bytes) ==
    /\ message_max_bytes = max_bytes
    /\ ppc = "init"
    /\ final_message = <<>>
    /\ additional_message = NoReply
    /\ published = <<>>

\* handle(): the producer task is spawned, or both ends of the reply channel
\* held by handle() are dropped; a producer that cannot be created panics
\* and drops its receiving end
ProducerSetup ==
    /\ hpc = "setup"
    /\ auth_protocol \in {"PLAINTEXT", "SASL_PLAINTEXT"}
    /\ hpc' = "running"
    /\ IF out_enable
       THEN \E created \in BOOLEAN :
               /\ reply_open' = created
               /\ reply_queue' = IF created THEN reply_queue ELSE <<>>
               /\ ppc' = IF created THEN "begin" ELSE "dead"
       ELSE /\ reply_open' = FALSE
            /\ reply_queue' = <<>>
            /\ ppc' = "dead"
    /\ UNCHANGED <<rpc, rstopped, reply, nreplies, receiver_metrics, queues,
                   final_message, additional_message, published,
                   configVars, dispatcherVars, sendLoopVars>>

(***************************************************************************)
(* The healthcheck task: gateway::spawn_healthcheck_loop.                  *)
(***************************************************************************)
Request(req, res) == [req |-> req, res |-> res]

gatewayUnchanged ==
    UNCHANGED <<caracat, gateway, probe_senders_map, tx_probe_to_sender,
                out_enable, message_max_bytes, mainVars, agent_secret,
                clientVars, queues,
                dispatcherVars, sendLoopVars, receiverVars, producerVars>>

\* GET /api/agent/{id}: a success status, 404, another status, or a network
\* error, on which the iteration is skipped
GatewayGet(maxIter) ==
    /\ gpc = "get"
    /\ niter < maxIter
    /\ niter' = niter + 1
    /\ \E res \in {"success", "not_found", "other", "error"} :
          /\ requests' = <<Request("get", res)>>
          /\ needs_registration' = (res \in {"not_found", "other"})
          /\ gpc' = IF res = "error" THEN "sleep"
                    ELSE IF res \in {"not_found", "other"} THEN "register"
                    ELSE "config"
    /\ gatewayUnchanged

\* variant: any answer of the gateway to the registration is good enough
GatewayRegisterAnyStatus ==
    /\ gpc = "register"
    /\ \E res \in {"success", "conflict", "other", "error"} :
          /\ requests' = Append(requests, Request("register", res))
          /\ gpc' = IF res # "error" THEN "config" ELSE "sleep"
    /\ UNCHANGED <<needs_registration, niter>>
    /\ gatewayUnchanged

\* POST /agent-api/agent/register: a success status and 409 go on, any
\* other status and a network error end the iteration
GatewayRegister ==
    /\ gpc = "register"
    /\ \E res \in {"success", "conflict", "other", "error"} :
          /\ requests' = Append(requests, Request("register", res))
          /\ gpc' = IF res \in {"success", "conflict"} THEN "config" ELSE "sleep"
    /\ UNCHANGED <<needs_registration, niter>>
    /\ gatewayUnchanged

\* POST .../config: only a network error ends the iteration
GatewayConfig ==
    /\ gpc = "config"
    /\ \E res \in {"success", "other", "error"} :
          /\ requests' = Append(requests, Request("config", res))
          /\ gpc' = IF res = "error" THEN "sleep" ELSE "health"
    /\ UNCHANGED <<needs_registration, niter>>
    /\ gatewayUnchanged

\* POST .../health, the last request of an iteration
GatewayHealth ==
    /\ gpc = "health"
    /\ \E res \in {"success", "other", "error"} :
          requests' = Append(requests, Request("health", res))
    /\ gpc' = "sleep"
    /\ UNCHANGED <<needs_registration, niter>>
    /\ gatewayUnchanged

\* sleep(30 s), then the next iteration
GatewaySleep ==
    /\ gpc = "sleep"
    /\ gpc' = "get"
    /\ UNCHANGED <<needs_registration, requests, niter>>
    /\ gatewayUnchanged

\* config::resolve_address on the addresses of the model
resolve_address(address) == address = "0.0.0.0:8080"

\* main, agent subcommand, up to the call of handle(): app_config fails on
\* an address that does not resolve, and main returns the error; an empty
\* caracat list is replaced by the default instance
MainAppConfig ==
    /\ hpc = "load"
    /\ IF ~resolve_address(metrics_address)
       THEN /\ hpc' = "exited"
            /\ exit_status' = "nonzero"
            /\ UNCHANGED caracat
       ELSE /\ hpc' = "create"
            /\ caracat' = IF raw_caracat = <<>>
                          THEN <<CaracatConfig(0, NoPrefix, NoPrefix, NoTtl, NoTtl, 1)>>
                          ELSE raw_caracat
            /\ UNCHANGED exit_status
    /\ UNCHANGED <<gateway, probe_senders_map, tx_probe_to_sender, out_enable,
                   message_max_bytes,
                   raw_caracat, auth_protocol, metrics_address, gatewayVars,
                   clientVars,
                   queues, reply_open, reply_queue, rpc, rstopped, reply, nreplies,
                   receiver_metrics, dispatcherVars, sendLoopVars, producerVars>>

\* handle() from its start to the last ReceiveLoop::new: it spawns the
\* healthcheck task when the gateway settings are complete, bails on an
\* empty caracat list, else creates the channels, the send loops and the
\* receive loops; main logs an error of handle() and returns Ok
HandleCreate ==
    /\ hpc = "create"
    /\ IF caracat = <<>>
       THEN /\ hpc' = "exited"
            /\ exit_status' = "zero"
            /\ UNCHANGED <<probe_senders_map, tx_probe_to_sender, queues,
                           sendLoopVars, rpc,
                           rstopped, reply>>
       ELSE /\ hpc' = "setup"
            /\ exit_status' = exit_status
            /\ probe_senders_map' = BuildSendersMap(caracat)
            /\ tx_probe_to_sender' = HeldSenders(caracat)
            /\ queues' = [i \in Instances |-> <<>>]
            /\ spc' = [i \in Instances |-> "wait"]
            /\ stopped' = [i \in Instances |-> FALSE]
            /\ batch' = [i \in Instances |-> NoBatch]
            /\ sent_count_batch' = [i \in Instances |-> 0]
            /\ caracat_senders' = [i \in Instances |-> {}]
            /\ waits' = [i \in Instances |-> 0]
            /\ probes_sent_in_measurement' =
                   [i \in Instances |-> [m \in MeasurementIds |-> NoEntry]]
            /\ reports' = [i \in Instances |-> NoReport]
            /\ history' = [i \in Instances |-> <<>>]
            /\ rpc' = [f \in Interfaces |-> "init"]
            /\ rstopped' = [f \in Interfaces |-> FALSE]
            /\ reply' = [f \in Interfaces |-> NoReply]
            /\ UNCHANGED metrics
    /\ gpc' = IF gateway.url /\ gateway.agent_key /\ agent_secret
              THEN "get" ELSE gpc
    /\ UNCHANGED <<caracat, gateway, out_enable, message_max_bytes,
                   raw_caracat, auth_protocol, metrics_address, agent_secret,
                   needs_registration, requests, niter, clientVars, reply_open,
                   reply_queue, nreplies, receiver_metrics, dispatcherVars,
                   producerVars>>

\* handle() at the match on auth_protocol: any other value returns an
\* error; main logs it and returns Ok, and the loops end with the process
HandleInvalidAuth ==
    /\ hpc = "setup"
    /\ auth_protocol \notin {"PLAINTEXT", "SASL_PLAINTEXT"}
    /\ hpc' = "exited"
    /\ exit_status' = "zero"
    /\ spc' = [i \in Instances |-> "exited"]
    /\ rpc' = [f \in Interfaces |-> "exited"]
    /\ tx_probe_to_sender' = [i \in Instances |-> FALSE]
    /\ UNCHANGED <<caracat, gateway, probe_senders_map, out_enable,
                   message_max_bytes, raw_caracat, auth_protocol,
                   metrics_address, gatewayVars, clientVars, queues, stopped, batch, sent_count_batch,
                   caracat_senders, waits, probes_sent_in_measurement, metrics,
                   reports, history, reply_open, reply_queue, rstopped, reply,
                   nreplies, receiver_metrics, dispatcherVars, producerVars>>

\* the process before main has loaded the configuration file
InitMain(raw, auth, address, oe) ==
    /\ raw_caracat = raw
    /\ auth_protocol = auth
    /\ metrics_address = address
    /\ exit_status = "none"
    /\ hpc = "load"
    /\ caracat = <<>>
    /\ gateway = GatewayFull
    /\ gpc = "off"
    /\ needs_registration = FALSE
    /\ requests = <<>>
    /\ niter = 0
    /\ cpc = "start"
    /\ client_probes = <<>>
    /\ client_max_bytes = 0
    /\ messages = <<>>
    /\ client_sent = <<>>
    /\ probe_senders_map = BuildSendersMap(<<>>)
    /\ tx_probe_to_sender = <<>>
    /\ queues = <<>>
    /\ dpc = "recv"
    /\ message = NoMessage
    /\ nrecv = 0
    /\ commits = 0
    /\ outcome = "none"
    /\ spc = <<>>
    /\ stopped = <<>>
    /\ batch = <<>>
    /\ sent_count_batch = <<>>
    /\ caracat_senders = <<>>
    /\ waits = <<>>
    /\ probes_sent_in_measurement = <<>>
    /\ metrics = [filtered_low |-> 0, filtered_high |-> 0, sent |-> 0, failed |-> 0]
    /\ reports = <<>>
    /\ history = <<>>
    /\ out_enable = oe
    /\ reply_open = TRUE
    /\ reply_queue = <<>>
    /\ rpc = [f \in {} |-> "init"]
    /\ rstopped = [f \in {} |-> FALSE]
    /\ reply = [f \in {} |-> NoReply]
    /\ nreplies = 0
    /\ receiver_metrics = [received |-> 0, invalid |-> 0, error |-> 0]
    /\ InitProducer(MaxReplySize + 1)

\* variant: a new batch always starts empty
ProducerBeginEmpty ==
    /\ ppc = "begin"
    /\ ppc' = "collect"
    /\ final_message' = <<>>
    /\ additional_message' = NoReply
    /\ UNCHANGED <<published, receiverVars, queues, configVars,
                   dispatcherVars, sendLoopVars>>

\* produce(): a new batch starts with the carried-over reply, if any
ProducerBegin ==
    /\ ppc = "begin"
    /\ ppc' = "collect"
    /\ final_message' = IF additional_message.some
                        THEN <<additional_message>> ELSE <<>>
    /\ additional_message' = NoReply
    /\ UNCHANGED <<published, receiverVars, queues, configVars,
                   dispatcherVars, sendLoopVars>>

\* produce(): after the inner loop, an empty batch is skipped, any other is
\* handed to producer.send whatever the delivery status turns out to be
SendBatch(records) ==
    /\ published' = IF records = <<>> THEN published
                    ELSE Append(published, records)
    /\ final_message' = <<>>
    /\ ppc' = "begin"

\* variant: the size test forgets the record separator and the text so far
FitsAlone(records, r) == EncodedLen(r) <= message_max_bytes

\* produce(): final_message.len() + message_str.len() + 1 > message_max_bytes
\* is false
Fits(records, r) == FinalLen(records) + EncodedLen(r) + 1 <= message_max_bytes

\* produce(): rx.try_recv() takes the oldest reply of the channel; it joins
\* the batch, or is set aside and the batch is sent without it
ProducerTryRecv ==
    /\ ppc = "collect"
    /\ reply_queue # <<>>
    /\ reply_queue' = Tail(reply_queue)
    /\ IF Fits(final_message, Head(reply_queue))
       THEN /\ final_message' = Append(final_message, Head(reply_queue))
            /\ UNCHANGED <<ppc, additional_message, published>>
       ELSE /\ additional_message' = Head(reply_queue)
            /\ SendBatch(final_message)
    /\ UNCHANGED <<hpc, reply_open, rpc, rstopped, reply, nreplies,
                   receiver_metrics, queues, configVars, dispatcherVars,
                   sendLoopVars>>

\* produce(): rx.try_recv() returns Err, the channel being empty, with or
\* without a Sender left: sleep out_batch_wait_interval and `continue`
ProducerPoll ==
    /\ ppc = "collect"
    /\ reply_queue = <<>>
    /\ UNCHANGED vars

\* variant: only an empty batch is restarted when its time is up
ProducerTimeoutEmptyOnly ==
    /\ ppc = "collect"
    /\ final_message = <<>>
    /\ SendBatch(final_message)
    /\ UNCHANGED <<additional_message, receiverVars, queues, configVars,
                   dispatcherVars, sendLoopVars>>

\* produce(): the batch is older than out_batch_wait_time
ProducerTimeout ==
    /\ ppc = "collect"
    /\ SendBatch(final_message)
    /\ UNCHANGED <<additional_message, receiverVars, queues, configVars,
                   dispatcherVars, sendLoopVars>>

\* Receiver::new_batch: on failure the thread sets its flag and returns
ReceiveLoopCreate(f) ==
    /\ rpc[f] = "init"
    /\ \E created \in BOOLEAN :
          /\ rpc' = [rpc EXCEPT ![f] = IF created THEN "recv" ELSE "exited"]
          /\ rstopped' = [rstopped EXCEPT ![f] = @ \/ ~created]
    /\ UNCHANGED <<hpc, reply_open, reply_queue, reply, nreplies,
                   receiver_metrics, queues, configVars, dispatcherVars,
                   sendLoopVars, producerVars>>

\* ReceiveLoop::stop sets the flag (the join is the caller's wait)
ReceiveLoopStop(f) ==
    /\ ~rstopped[f]
    /\ rstopped' = [rstopped EXCEPT ![f] = TRUE]
    /\ UNCHANGED <<hpc, reply_open, reply_queue, rpc, reply, nreplies,
                   receiver_metrics, queues, configVars, dispatcherVars,
                   sendLoopVars, producerVars>>

\* the loop head finds the flag set
ReceiveLoopStopped(f) ==
    /\ rpc[f] = "recv"
    /\ rstopped[f]
    /\ rpc' = [rpc EXCEPT ![f] = "exited"]
    /\ UNCHANGED <<hpc, reply_open, reply_queue, rstopped, reply, nreplies,
                   receiver_metrics, queues, configVars, dispatcherVars,
                   sendLoopVars, producerVars>>

\* next_reply() returns Ok(reply): count it, then send it on or count it
\* as invalid
ReceiveLoopReply(f, r, maxReplies) ==
    /\ rpc[f] = "recv"
    /\ ~rstopped[f]
    /\ nreplies < maxReplies
    /\ nreplies' = nreplies + 1
    /\ reply' = [reply EXCEPT ![f] = r]
    /\ IF Accepted(f, r)
       THEN /\ rpc' = [rpc EXCEPT ![f] = "send"]
            /\ receiver_metrics' =
                  [receiver_metrics EXCEPT !.received = @ + 1]
       ELSE /\ rpc' = rpc
            /\ receiver_metrics' =
                  [receiver_metrics EXCEPT !.received = @ + 1,
                                           !.invalid = @ + 1]
    /\ UNCHANGED <<hpc, reply_open, reply_queue, rstopped, queues,
                   configVars, dispatcherVars, sendLoopVars, producerVars>>

\* next_reply() returns Err: leave if the flag is set by now, else count
\* the error and go on
ReceiveLoopError(f, maxReplies) ==
    /\ rpc[f] = "recv"
    /\ nreplies < maxReplies
    /\ nreplies' = nreplies + 1
    /\ IF rstopped[f]
       THEN /\ rpc' = [rpc EXCEPT ![f] = "exited"]
            /\ UNCHANGED receiver_metrics
       ELSE /\ rpc' = rpc
            /\ receiver_metrics' = [receiver_metrics EXCEPT !.error = @ + 1]
    /\ UNCHANGED <<hpc, reply_open, reply_queue, rstopped, reply, queues,
                   configVars, dispatcherVars, sendLoopVars, producerVars>>

\* variant: the reply overtakes the replies already in the channel
ReceiveLoopSendFirst(f) ==
    /\ rpc[f] = "send"
    /\ IF reply_open
       THEN /\ Len(reply_queue) < ReplyCap
            /\ reply_queue' = <<reply[f]>> \o reply_queue
            /\ rpc' = [rpc EXCEPT ![f] = "recv"]
       ELSE /\ reply_queue' = reply_queue
            /\ rpc' = [rpc EXCEPT ![f] = "exited"]
    /\ UNCHANGED <<hpc, reply_open, rstopped, reply, nreplies,
                   receiver_metrics, queues, configVars, dispatcherVars,
                   sendLoopVars, producerVars>>

\* block_on(tx.send(reply)): waits for room; Err when the receiving end is
\* gone, and the loop breaks
ReceiveLoopSend(f) ==
    /\ rpc[f] = "send"
    /\ IF reply_open
       THEN /\ Len(reply_queue) < ReplyCap
            /\ reply_queue' = Append(reply_queue, reply[f])
            /\ rpc' = [rpc EXCEPT ![f] = "recv"]
       ELSE /\ reply_queue' = reply_queue
            /\ rpc' = [rpc EXCEPT ![f] = "exited"]
    /\ UNCHANGED <<hpc, reply_open, rstopped, reply, nreplies,
                   receiver_metrics, queues, configVars, dispatcherVars,
                   sendLoopVars, producerVars>>


(***************************************************************************)
(* Configurations and inbound messages the specifications draw from.       *)
(***************************************************************************)
SeqsUpTo(S, n) == UNION {[1..k -> S] : k \in 0..n}

InstanceIds == {0, 1}
\* (src_ipv4_prefix, src_ipv6_prefix) of an instance; on 2-bit addresses
\* Net(0, 1) holds the addresses 0 and 1
PrefixPairs == {<<NoPrefix, NoPrefix>>, <<Net(0, 1), NoPrefix>>,
                <<NoPrefix, Net(0, 1)>>, <<Net(0, 1), Net(0, 1)>>,
                <<BadPrefix, NoPrefix>>}
SrcIps == {NoIp, GarbageIp, Addr(4, 0), Addr(4, 2), Addr(6, 0)}

RouteInstances ==
    {CaracatConfig(id, pp[1], pp[2], NoTtl, NoTtl, 1) :
        id \in InstanceIds, pp \in PrefixPairs}

RouteConfigs == SeqsUpTo(RouteInstances, MaxInst) \ {<<>>}

PlainJson(ip) == Json(ip, "none", "none")

RouteHeaders ==
    {Header(OtherKey, PlainJson(Addr(4, 0))), Header(AgentId, NoValue)}
    \cup {Header(AgentId, PlainJson(ip)) : ip \in SrcIps}

RoutePairHeaders ==
    {Header(OtherKey, PlainJson(Addr(4, 0))), Header(AgentId, NoValue),
     Header(AgentId, PlainJson(NoIp)), Header(AgentId, PlainJson(Addr(4, 0)))}

RouteMessages ==
    [payload : {Probes(<<1>>)},
     headers : SeqsUpTo(RouteHeaders, 1) \cup [1..2 -> RoutePairHeaders]]
    \cup [payload : {NoPayload, Malformed, Probes(<<>>)},
          headers : {<<>>, <<Header(AgentId, PlainJson(NoIp))>>}]

\* backpressure: a prefix instance with or without a default instance, and
\* messages of every kind
BackpressureConfigs ==
    {<<CaracatConfig(0, Net(0, 1), NoPrefix, NoTtl, NoTtl, 1),
       CaracatConfig(1, NoPrefix, NoPrefix, NoTtl, NoTtl, 1)>>,
     <<CaracatConfig(0, Net(0, 1), NoPrefix, NoTtl, NoTtl, 1)>>}

BackpressureMessages ==
    [payload : {Probes(<<1>>)},
     headers : {<<>>} \cup {<<Header(AgentId, PlainJson(ip))>> : ip \in {NoIp, Addr(4, 0)}}]
    \cup [payload : {NoPayload, Malformed, Probes(<<>>)},
          headers : {<<Header(AgentId, PlainJson(NoIp))>>}]

Ttls == {1, 2, 3}
MinTtls == {NoTtl, SomeTtl(2), SomeTtl(3)}
MaxTtls == {NoTtl, SomeTtl(1), SomeTtl(2)}

TtlConfigs ==
    {<<CaracatConfig(0, NoPrefix, NoPrefix, lo, hi, pk)>> :
        lo \in MinTtls, hi \in MaxTtls, pk \in 1..MaxPackets}

TtlMessages ==
    [payload : {Probes(ps) : ps \in SeqsUpTo(Ttls, MaxProbes) \ {<<>>}},
     headers : {<<Header(AgentId, PlainJson(NoIp))>>}]

Gateways == [url : BOOLEAN, agent_key : BOOLEAN]

MeasureConfigs ==
    {<<CaracatConfig(0, NoPrefix, NoPrefix, NoTtl, NoTtl, pk)>> : pk \in 1..MaxPackets}

InterfaceNames == {"eth0", "eth1"}
RecvInstances ==
    {[CaracatConfig(id, NoPrefix, NoPrefix, NoTtl, NoTtl, 1)
         EXCEPT !.interface = f, !.integrity_check = ic] :
        id \in InstanceIds, f \in InterfaceNames, ic \in BOOLEAN}
\* one instance, or two on the same or on different interfaces
RecvConfigs ==
    {<<a>> : a \in {c \in RecvInstances : c.interface = "eth0"}}
    \cup {<<a, b>> : a \in {c \in RecvInstances : c.interface = "eth0"},
                     b \in RecvInstances}
Replies == {Reply(ids) : ids \in SUBSET InstanceIds}

MaxBytesChoices == {2, 5}
ProdConfigs ==
    <<[CaracatConfig(0, NoPrefix, NoPrefix, NoTtl, NoTtl, 1)
          EXCEPT !.interface = "eth0"],
      [CaracatConfig(1, NoPrefix, NoPrefix, NoTtl, NoTtl, 1)
          EXCEPT !.interface = "eth1"]>>

MeasureMessages ==
    [payload : {Probes(<<1>>)},
     headers : {<<Header(AgentId, PlainJson(NoIp))>>}
               \cup {<<Header(AgentId, Json(NoIp, m, e))>> :
                        m \in MeasurementIds, e \in {"true", "false"}}]

\* startup: configuration files with no instance, one and two instances
RawCaracats ==
    {<<>>, <<CaracatConfig(0, NoPrefix, NoPrefix, NoTtl, NoTtl, 1)>>,
     <<CaracatConfig(0, Net(0, 1), NoPrefix, NoTtl, NoTtl, 1),
       [CaracatConfig(1, NoPrefix, NoPrefix, NoTtl, NoTtl, 1)
           EXCEPT !.interface = "eth1"]>>}

\* the codec: destinations of both families, IPv4-mapped IPv6 included
CodecProbes ==
    {Probe(d, 24000, 33434, t, pr) :
        d \in {IpV4(0), IpV4(1), IpV6(FALSE, 0), IpV6(TRUE, 0)},
        t \in {1, 2}, pr \in {"UDP", "ICMP", "ICMPv6"}}

\* what the bytes of a payload can spell: messages with any dst_addr field
\* and any protocol tag of the schema, cut or broken framing
WireItems ==
    {WireMessage(d, 24000, 33434, t, tag) :
        d \in {AddrBytes(16, m, x) : m \in BOOLEAN, x \in {0, 1}}
               \cup {AddrBytes(4, FALSE, 0)},
        t \in {1, 2}, tag \in {"udp", "icmp", "icmpv6", "tcp"}}
    \cup {Corrupt}
\* the input can end inside a message only once: a cut message is the last
WireStreams ==
    SeqsUpTo(WireItems, MaxWire)
    \cup {Append(w, Truncated) : w \in SeqsUpTo(WireItems, MaxWire - 1)}

EncodeAll(ps) == [k \in 1..Len(ps) |-> serialize_probe(ps[k])]

CodecConfigs == {<<CaracatConfig(0, NoPrefix, NoPrefix, NoTtl, NoTtl, 1)>>}
CodecMessages ==
    [payload : {Bytes(w) : w \in WireStreams},
     headers : {<<Header(AgentId, PlainJson(NoIp))>>}]

\* the client: CSV records of three or five fields, with texts that parse
\* and texts that do not
CsvRecords ==
    {<<"10.0.0.1", "24000", "33434">>, <<"10.0.0.1", "24000", "33434", "300", "udp">>}
    \cup {<<d, "24000", "33434", "1", pr>> :
             d \in {"10.0.0.1", "::1", "::ffff:10.0.0.1", "example"},
             pr \in {"udp", "ICMP", "icmpv6", "tcp"}}
CsvFiles == SeqsUpTo(CsvRecords, MaxRows)

\* the message client produce() sends for probes that fit one payload
ClientMessage(probes) ==
    [payload |-> Bytes(EncodeAll(probes)),
     headers |-> <<Header(AgentId, PlainJson(NoIp))>>]

\* headers: what a header for this agent can hold, alone or followed by the
\* client's top-level measurement headers
HeaderMessages ==
    [payload : {Probes(<<1>>)},
     headers : {<<Header(AgentId, v)>> \o top :
                   v \in {NoValue, NotUtf8, Text("M1")}
                          \cup {Json(ip, m, e) : ip \in {NoIp, Addr(4, 0)},
                                                  m \in {"none", "M1"},
                                                  e \in {"none", "true", "false"}},
                   top \in {<<>>, <<Header("measurement_id", Text("M1"))>>}
                            \cup {<<Header("measurement_id", Text("M1")),
                                     Header("end_of_measurement", Text(e))>> :
                                      e \in {"true", "false"}}}]

(***************************************************************************)
(* Specifications.                                                         *)
(***************************************************************************)
\* the agent as handle() runs it: nothing calls SendLoop::stop
\* the agent with the publisher enabled
InitWith(configs, gw) ==
    /\ InitSend(configs, gw)
    /\ InitReceive(configs, TRUE)
    /\ InitProducer(MaxReplySize + 1)

Running(Messages, maxMsgs) ==
    \/ \E m \in Messages : ConsumerRecv(m, maxMsgs)
    \/ ConsumerRecvError
    \/ ConsumerRetry
    \/ HandleMessage
    \/ \E i \in Instances : SendLoopRecv(i)
    \/ \E i \in Instances : SendLoopCreate(i)
    \/ \E i \in Instances : SendLoopProbe(i)
    \/ \E i \in Instances : SendLoopFinish(i)

\* the same with SendLoop::stop called on any loop at any time
NextWith(Messages, maxMsgs) ==
    \/ Running(Messages, maxMsgs)
    \/ \E i \in Instances : Stop(i)
    \/ \E i \in Instances : SendLoopStopped(i)

\* routing: every configuration of up to MaxInst instances
Init == \E configs \in RouteConfigs : InitWith(configs, GatewayFull)
Next == Running(RouteMessages, MaxMsgs)
Spec == Init /\ [][Next]_vars

\* backpressure: enough messages to fill a channel
InitBackpressure == \E configs \in BackpressureConfigs : InitWith(configs, GatewayFull)
NextBackpressure == NextWith(BackpressureMessages, QueueCap + 2)
SpecBackpressure == InitBackpressure /\ [][NextBackpressure]_vars

\* TTL filtering: one default instance with every min_ttl / max_ttl
InitTtl == \E configs \in TtlConfigs : InitWith(configs, GatewayFull)
NextTtl == NextWith(TtlMessages, MaxTtlMsgs)
SpecTtl == InitTtl /\ [][NextTtl]_vars
\* the same configurations in the running agent, where nothing calls stop,
\* with a consumer that returns messages only
NextFilter ==
    \/ \E m \in TtlMessages : ConsumerRecv(m, MaxTtlMsgs)
    \/ HandleMessage
    \/ \E i \in Instances : SendLoopRecv(i)
    \/ \E i \in Instances : SendLoopCreate(i)
    \/ \E i \in Instances : SendLoopProbe(i)
    \/ \E i \in Instances : SendLoopFinish(i)
SpecFilter == InitTtl /\ [][NextFilter]_vars

\* closing: one default instance, alone or followed by a duplicate of it,
\* whose channel never has a Sender; the Senders may be dropped at any time
CloseConfigs ==
    {<<CaracatConfig(0, NoPrefix, NoPrefix, NoTtl, NoTtl, 1)>>,
     <<CaracatConfig(0, NoPrefix, NoPrefix, NoTtl, NoTtl, 1),
       CaracatConfig(0, NoPrefix, NoPrefix, NoTtl, NoTtl, 1)>>}
CloseMessages ==
    [payload : {Probes(<<1>>), Probes(<<1, 2>>)},
     headers : {<<Header(AgentId, PlainJson(NoIp))>>}]
InitClose == \E configs \in CloseConfigs : InitWith(configs, GatewayFull)
SendLoopStep(i) ==
    \/ SendLoopRecv(i)
    \/ SendLoopCreate(i)
    \/ SendLoopProbe(i)
    \/ SendLoopFinish(i)
    \/ SendLoopClosed(i)
NextClose ==
    \/ SendersHeld /\ \E m \in CloseMessages : ConsumerRecv(m, QueueCap)
    \/ SendersHeld /\ HandleMessage
    \/ DropSenders
    \/ \E i \in Instances : SendLoopRecv(i)
    \/ \E i \in Instances : SendLoopCreate(i)
    \/ \E i \in Instances : SendLoopProbe(i)
    \/ \E i \in Instances : SendLoopFinish(i)
    \/ \E i \in Instances : SendLoopClosed(i)
\* a send loop thread keeps running: handle construction is under a 5 s
\* timeout and sending does not block
SpecClose ==
    /\ InitClose /\ [][NextClose]_vars
    /\ \A i \in 1..MaxInst : WF_vars(i \in Instances /\ SendLoopStep(i))

\* stopping: SendLoop::stop may be called at any time, and the loop is
\* followed from its stop check into its wait on the channel
NextStop ==
    \/ \E m \in BackpressureMessages : ConsumerRecv(m, QueueCap)
    \/ HandleMessage
    \/ \E i \in Instances : Stop(i)
    \/ \E i \in Instances : SendLoopStopped(i)
    \/ \E i \in Instances : SendLoopHead(i)
    \/ \E i \in Instances : SendLoopWake(i)
    \/ \E i \in Instances : SendLoopCreate(i)
    \/ \E i \in Instances : SendLoopProbe(i)
    \/ \E i \in Instances : SendLoopFinish(i)
SpecStop ==
    /\ InitBackpressure /\ [][NextStop]_vars
    /\ \A i \in 1..MaxInst :
          WF_vars(i \in Instances /\ (\/ SendLoopStopped(i) \/ SendLoopHead(i)
                                      \/ SendLoopWake(i) \/ SendLoopCreate(i)
                                      \/ SendLoopProbe(i) \/ SendLoopFinish(i)))

\* stopping in a batch: one default instance, batches of one and two
\* probes, SendLoop::stop called at any time
InitHalt == \E configs \in MeasureConfigs : InitWith(configs, GatewayFull)
NextHalt ==
    \/ \E m \in CloseMessages : ConsumerRecv(m, QueueCap)
    \/ HandleMessage
    \/ \E i \in Instances : Stop(i)
    \/ \E i \in Instances : SendLoopStopped(i)
    \/ \E i \in Instances : SendLoopHead(i)
    \/ \E i \in Instances : SendLoopWake(i)
    \/ \E i \in Instances : SendLoopCreate(i)
    \/ \E i \in Instances : SendLoopProbe(i)
    \/ \E i \in Instances : SendLoopFinish(i)
SpecHalt == InitHalt /\ [][NextHalt]_vars

\* the healthcheck task of an agent with complete gateway settings
NextGateway ==
    \/ GatewayGet(MaxIterations)
    \/ GatewayRegister
    \/ GatewayConfig
    \/ GatewayHealth
    \/ GatewaySleep
SpecGateway == InitClose /\ [][NextGateway]_vars

\* fan-out: one default instance with or without each TTL bound
FanOutConfigs ==
    {<<CaracatConfig(0, NoPrefix, NoPrefix, lo, hi, pk)>> :
        lo \in {NoTtl, SomeTtl(2)}, hi \in {NoTtl, SomeTtl(1)}, pk \in 1..MaxPackets}
InitFanOut == \E configs \in FanOutConfigs : InitWith(configs, GatewayFull)
SpecFanOut == InitFanOut /\ [][NextTtl]_vars

\* completion: the running agent with a gateway; the dispatcher and each
\* send loop thread keep running
CompleteMessages ==
    [payload : {Probes(<<1>>)},
     headers : {<<Header(AgentId, Json(NoIp, "M1", e))>> : e \in {"true", "false"}}]
InitComplete ==
    InitWith(<<CaracatConfig(0, NoPrefix, NoPrefix, NoTtl, NoTtl, 1)>>, GatewayFull)
NextComplete ==
    \/ \E m \in CompleteMessages : ConsumerRecv(m, MaxMeasureMsgs)
    \/ HandleMessage
    \/ \E i \in Instances : SendLoopRecv(i)
    \/ \E i \in Instances : SendLoopCreate(i)
    \/ \E i \in Instances : SendLoopProbe(i)
    \/ \E i \in Instances : SendLoopFinish(i)
SpecComplete ==
    /\ InitComplete /\ [][NextComplete]_vars
    /\ WF_vars(HandleMessage)
    /\ \A i \in 1..MaxInst :
          WF_vars(i \in Instances /\ (\/ SendLoopRecv(i) \/ SendLoopCreate(i)
                                      \/ SendLoopProbe(i) \/ SendLoopFinish(i)))

\* measurement accounting: one default instance, with and without a gateway
InitMeasure == \E configs \in MeasureConfigs, gw \in Gateways : InitWith(configs, gw)
NextMeasure == NextWith(MeasureMessages, MaxMeasureMsgs)
SpecMeasure == InitMeasure /\ [][NextMeasure]_vars

\* receiving: up to two instances on one or two interfaces
InitRecv ==
    \E configs \in RecvConfigs, oe \in BOOLEAN :
        /\ InitSend(configs, GatewayFull)
        /\ InitReceive(configs, oe)
        /\ InitProducer(MaxReplySize + 1)
NextRecv ==
    \/ ProducerSetup
    \/ ProducerBegin
    \/ ProducerTryRecv
    \/ \E f \in Interfaces : ReceiveLoopCreate(f)
    \/ \E f \in Interfaces : ReceiveLoopStop(f)
    \/ \E f \in Interfaces : ReceiveLoopStopped(f)
    \/ \E f \in Interfaces, r \in Replies : ReceiveLoopReply(f, r, MaxReplies)
    \/ \E f \in Interfaces : ReceiveLoopError(f, MaxReplies)
    \/ \E f \in Interfaces : ReceiveLoopSend(f)
SpecRecv == InitRecv /\ [][NextRecv]_vars

\* a receive loop thread keeps running; whether next_reply() returns
\* anything is up to the network
SpecRecvFair ==
    /\ SpecRecv
    /\ \A f \in InterfaceNames :
          WF_vars(f \in Interfaces /\ (\/ ReceiveLoopCreate(f)
                                       \/ ReceiveLoopStopped(f)
                                       \/ ReceiveLoopSend(f)))

\* publishing: two receive loops without integrity check feed the producer
InitProd ==
    \E max_bytes \in MaxBytesChoices :
        /\ InitSend(ProdConfigs, GatewayFull)
        /\ InitReceive(ProdConfigs, TRUE)
        /\ InitProducer(max_bytes)
NextProd ==
    \/ ProducerSetup
    \/ ProducerBegin
    \/ ProducerTryRecv
    \/ ProducerTimeout
    \/ \E f \in Interfaces : ReceiveLoopCreate(f)
    \/ \E f \in Interfaces, size \in 1..MaxReplySize :
          ReceiveLoopReply(f, Captured({}, f, nreplies + 1, size),
                           MaxProdReplies)
    \/ \E f \in Interfaces : ReceiveLoopSend(f)
SpecProd == InitProd /\ [][NextProd]_vars

\* flushing: one receive loop, which may be stopped, feeds the producer, and
\* the producer task
\* keeps running: the clock advances, try_recv does not block, the sleep
\* between polls and the delivery wait are bounded
InitFlush ==
    \E max_bytes \in MaxBytesChoices :
        /\ InitSend(<<ProdConfigs[1]>>, GatewayFull)
        /\ InitReceive(<<ProdConfigs[1]>>, TRUE)
        /\ InitProducer(max_bytes)
NextFlush ==
    \/ ProducerSetup
    \/ ProducerBegin
    \/ ProducerTryRecv
    \/ ProducerPoll
    \/ ProducerTimeout
    \/ \E f \in Interfaces : ReceiveLoopCreate(f)
    \/ \E f \in Interfaces : ReceiveLoopStop(f)
    \/ \E f \in Interfaces : ReceiveLoopStopped(f)
    \/ \E f \in Interfaces, size \in 1..MaxReplySize :
          ReceiveLoopReply(f, Captured({}, f, nreplies + 1, size),
                           MaxProdReplies)
    \/ \E f \in Interfaces : ReceiveLoopSend(f)
SpecProdFair ==
    /\ InitFlush /\ [][NextFlush]_vars
    /\ WF_vars(ProducerBegin)
    /\ WF_vars(ProducerTryRecv)
    /\ WF_vars(ProducerTimeout)

\* startup: main loads a configuration file, handle() sets the agent up and
\* the dispatcher runs
InitStartup ==
    \E raw \in RawCaracats, auth \in {"PLAINTEXT", "SASL_PLAINTEXT", "SSL"},
       address \in {"0.0.0.0:8080", "nohost.invalid:8080"}, oe \in BOOLEAN,
       secret \in BOOLEAN :
        InitMain(raw, auth, address, oe) /\ agent_secret = secret
NextStartup ==
    \/ MainAppConfig
    \/ HandleCreate
    \/ HandleInvalidAuth
    \/ ProducerSetup
    \/ hpc = "running" /\ \E m \in BackpressureMessages : ConsumerRecv(m, MaxStartMsgs)
    \/ hpc = "running" /\ HandleMessage
SpecStartup == InitStartup /\ [][NextStartup]_vars

\* the codec: one default instance; the dispatcher decodes payloads given
\* by their bytes
InitCodec == \E configs \in CodecConfigs : InitWith(configs, GatewayFull)
NextCodec ==
    \/ \E m \in CodecMessages : ConsumerRecv(m, MaxCodecMsgs)
    \/ HandleMessage
SpecCodec == InitCodec /\ [][NextCodec]_vars

\* the client reads a CSV file and sends its probes; the agent receives them
ClientMessages ==
    {ClientMessage(read_probes_from_csv(records).probes) :
        records \in {f \in CsvFiles : /\ read_probes_from_csv(f).ok
                                      /\ read_probes_from_csv(f).probes # <<>>}}
ClientProduce == \E m \in ClientMessages : ConsumerRecv(m, MaxClientMsgs)

NextClient ==
    \/ ClientProduce
    \/ HandleMessage
SpecClient == InitCodec /\ [][NextClient]_vars

\* one client invocation: the probes are packed, then each message is sent
clientUnchanged ==
    UNCHANGED <<caracat, gateway, probe_senders_map, tx_probe_to_sender,
                out_enable, message_max_bytes, mainVars, gatewayVars, queues,
                dispatcherVars, sendLoopVars, receiverVars, producerVars>>

ClientProbeLists ==
    SeqsUpTo({Probe(d, 24000, 33434, 1, "UDP") : d \in {IpV4(0), IpV6(FALSE, 0)}},
             MaxClientProbes)
ClientMaxBytes == {40, 48, 100, 150}

\* client produce() up to its send loop: create_messages on the probes read
ClientCreateMessages ==
    /\ cpc = "start"
    /\ \E probes \in ClientProbeLists, max \in ClientMaxBytes :
          /\ client_probes' = probes
          /\ client_max_bytes' = max
          /\ messages' = create_messages(probes, max)
    /\ cpc' = "send"
    /\ UNCHANGED client_sent
    /\ clientUnchanged

\* variant: every message is marked as the end of the measurement
ClientSendAllLast ==
    /\ cpc = "send"
    /\ Len(client_sent) < Len(messages)
    /\ client_sent' = Append(client_sent,
           [payload |-> messages[Len(client_sent) + 1],
            end_of_measurement |-> "true"])
    /\ UNCHANGED <<cpc, client_probes, client_max_bytes, messages>>
    /\ clientUnchanged

\* client produce(), one iteration of `for (message_index, message)`: the
\* message goes to producer.send with end_of_measurement set to
\* is_last_message.to_string()
ClientSend ==
    /\ cpc = "send"
    /\ Len(client_sent) < Len(messages)
    /\ LET message_index == Len(client_sent)
           is_last_message == (message_index = Len(messages) - 1)
       IN client_sent' = Append(client_sent,
              [payload |-> messages[message_index + 1],
               end_of_measurement |-> IF is_last_message THEN "true" ELSE "false"])
    /\ UNCHANGED <<cpc, client_probes, client_max_bytes, messages>>
    /\ clientUnchanged

\* the loop is over and produce() returns
ClientDone ==
    /\ cpc = "send"
    /\ Len(client_sent) = Len(messages)
    /\ cpc' = "done"
    /\ UNCHANGED <<client_probes, client_max_bytes, messages, client_sent>>
    /\ clientUnchanged

NextPack ==
    \/ ClientCreateMessages
    \/ ClientSend
    \/ ClientDone
SpecPack == InitCodec /\ [][NextPack]_vars

\* headers: one default instance, messages addressed to the agent
NextHeader ==
    \/ \E m \in HeaderMessages : ConsumerRecv(m, MaxHeaderMsgs)
    \/ HandleMessage
SpecHeader == InitCodec /\ [][NextHeader]_vars

(***************************************************************************)
(* What the claims speak of, stated without the dispatcher's own           *)
(* operators.                                                              *)
(***************************************************************************)
\* the dispatcher finishes the iteration for the message it holds
DispatcherStep == dpc = "handle" /\ dpc' = "recv"

NoHeaderForAgent(m) == \A k \in 1..Len(m.headers) : m.headers[k].key # AgentId

\* the header value the agent reads its metadata from: the last JSON value
\* under the agent's key
AgentJsonHeaders(m) ==
    {k \in 1..Len(m.headers) :
        m.headers[k].key = AgentId /\ m.headers[k].value.kind = "json"}

SrcIpOf(m) ==
    IF AgentJsonHeaders(m) = {} THEN NoIp
    ELSE m.headers[CHOOSE k \in AgentJsonHeaders(m) :
                       \A j \in AgentJsonHeaders(m) : j <= k].value.src_ip

\* the message reaches instance selection: addressed to the agent, with a
\* payload that decodes to at least one probe
Routable(m) ==
    /\ ~NoHeaderForAgent(m)
    /\ m.payload.kind = "probes"
    /\ m.payload.probes # <<>>

\* the instance's IPv4 or IPv6 prefix contains the address
InPrefixOf(cfg, ip) ==
    /\ ip.kind = "addr"
    /\ \/ ip.fam = 4 /\ cfg.src_ipv4_prefix.kind = "net"
                     /\ PrefixContains(cfg.src_ipv4_prefix, ip.bits)
       \/ ip.fam = 6 /\ cfg.src_ipv6_prefix.kind = "net"
                     /\ PrefixContains(cfg.src_ipv6_prefix, ip.bits)

Containing(ip) == {i \in Instances : InPrefixOf(caracat[i], ip)}
Defaults ==
    {i \in Instances : caracat[i].src_ipv4_prefix.kind = "none"
                       /\ caracat[i].src_ipv6_prefix.kind = "none"}
First(S) == CHOOSE i \in S : \A j \in S : i <= j

\* C1: a message with no header keyed by the agent id puts nothing on any
\* send queue and is committed.
C1_RecipientFilter ==
    [][(DispatcherStep /\ NoHeaderForAgent(message))
          => /\ queues' = queues
             /\ commits' = commits + 1
             /\ outcome' \in {"not_intended", "empty_payload"}]_vars

C1_Witness ==
    /\ outcome = "not_intended"
    /\ dpc = "recv"
    /\ commits = 1
    /\ \A i \in Instances : queues[i] = <<>> /\ spc[i] = "wait"

\* C3: with src_ip present and inside some instance's prefix, the batch is
\* enqueued on the queue of the first such instance, with source_ip = src_ip.
C3_PrefixRouting ==
    [][(/\ DispatcherStep
        /\ Routable(message)
        /\ Containing(SrcIpOf(message)) # {}
        /\ Len(queues[First(Containing(SrcIpOf(message)))]) < QueueCap
        /\ spc[First(Containing(SrcIpOf(message)))] # "exited")
          => queues' = [queues EXCEPT ![First(Containing(SrcIpOf(message)))] =
                 Append(@, ProbesWithSource(message.payload.probes,
                                            SrcIpOf(message), NoInfo))]]_vars

\* C4: with src_ip absent or inside no prefix, and an instance without
\* prefixes, the batch is enqueued on the queue of the first instance
\* without prefixes, with the empty source_ip.
C4_DefaultFallback ==
    [][(/\ DispatcherStep
        /\ Routable(message)
        /\ Containing(SrcIpOf(message)) = {}
        /\ Defaults # {}
        /\ Len(queues[First(Defaults)]) < QueueCap
        /\ spc[First(Defaults)] # "exited")
          => queues' = [queues EXCEPT ![First(Defaults)] =
                 Append(@, ProbesWithSource(message.payload.probes,
                                            EmptyIp, NoInfo))]]_vars

\* C5: with src_ip absent or inside no prefix, and no instance without
\* prefixes, the message is rejected: nothing is enqueued, the message is
\* committed and the dispatcher is back at recv().
C5_PolicyRejection ==
    [][(/\ DispatcherStep
        /\ Routable(message)
        /\ Containing(SrcIpOf(message)) = {}
        /\ Defaults = {})
          => /\ outcome' = "rejected"
             /\ queues' = queues
             /\ commits' = commits + 1]_vars

C5_Witness ==
    /\ outcome = "rejected"
    /\ dpc = "recv"
    /\ commits = 1
    /\ Defaults = {}
    /\ \A i \in Instances : queues[i] = <<>> /\ spc[i] = "wait"

\* the queue the message is routed to (instance ids are unique here)
SelectedQueue(m) ==
    IF Containing(SrcIpOf(m)) # {} THEN First(Containing(SrcIpOf(m)))
    ELSE IF Defaults # {} THEN First(Defaults)
    ELSE 0

\* C2: every received message is committed exactly once before the next
\* recv(): none while it is being handled, one when the dispatcher is back
\* at recv().
C2_AckExactlyOnce ==
    /\ dpc = "handle" => commits = 0
    /\ (dpc \in {"recv", "sleep"} /\ nrecv > 0) => commits = 1

C2_Witness ==
    /\ dpc = "recv"
    /\ nrecv > QueueCap
    /\ outcome = "queue_full"
    /\ commits = 1

\* C6: a channel never holds more than its capacity, the dispatcher's
\* iteration is enabled whatever the send loops do, and a message routed to
\* a full channel leaves every channel as it was and is committed.
C6_Backpressure ==
    /\ [](\A i \in Instances : Len(queues[i]) <= QueueCap)
    /\ [](dpc = "handle" => ENABLED HandleMessage)
    /\ [][(/\ DispatcherStep
           /\ Routable(message)
           /\ SelectedQueue(message) # 0
           /\ spc[SelectedQueue(message)] # "exited"
           /\ Len(queues[SelectedQueue(message)]) = QueueCap)
             => /\ queues' = queues
                /\ outcome' = "queue_full"
                /\ commits' = commits + 1]_vars

C6_Witness ==
    /\ outcome = "queue_full"
    /\ dpc = "recv"
    /\ commits = 1
    /\ \E i \in Instances : Len(queues[i]) = QueueCap /\ spc[i] # "exited"

\* send loop i handles the next probe of its batch
ProbeStep(i) ==
    /\ spc[i] = "send" /\ spc'[i] = "send"
    /\ batch[i].probes # <<>>
    /\ batch'[i].probes = Tail(batch[i].probes)

PassesTtl(cfg, ttl) ==
    /\ ~cfg.min_ttl.some \/ ttl >= cfg.min_ttl.v
    /\ ~cfg.max_ttl.some \/ ttl <= cfg.max_ttl.v

SendAttempts(m) == m.sent + m.failed

\* C7: a probe is sent (config.packets attempts) iff its TTL is inside
\* [min_ttl, max_ttl]; below min_ttl it adds one to the low counter, above
\* max_ttl (and not below min_ttl) one to the high counter, and a filtered
\* probe makes no send attempt.
C7_TtlFiltering ==
    [][\A i \in Instances : ProbeStep(i) =>
         LET ttl == Head(batch[i].probes)
             cfg == caracat[i]
             low == cfg.min_ttl.some /\ ttl < cfg.min_ttl.v
             high == cfg.max_ttl.some /\ ttl > cfg.max_ttl.v /\ ~low
         IN /\ PassesTtl(cfg, ttl) <=>
                 SendAttempts(metrics') = SendAttempts(metrics) + cfg.packets
            /\ ~PassesTtl(cfg, ttl) => SendAttempts(metrics') = SendAttempts(metrics)
            /\ metrics'.filtered_low = metrics.filtered_low + (IF low THEN 1 ELSE 0)
            /\ metrics'.filtered_high = metrics.filtered_high + (IF high THEN 1 ELSE 0)]_vars

C7_Witness ==
    /\ spc[1] = "wait"
    /\ nrecv = 1
    /\ caracat[1].min_ttl = SomeTtl(2)
    /\ caracat[1].max_ttl = SomeTtl(2)
    /\ caracat[1].packets = 2
    /\ metrics.filtered_low = 0
    /\ metrics.filtered_high = 1
    /\ metrics.sent = 2

RECURSIVE SumSent(_, _)
SumSent(h, idx) ==
    IF idx = {} THEN 0
    ELSE LET j == CHOOSE x \in idx : TRUE
         IN h[j].sent + SumSent(h, idx \ {j})

\* the accounted batches of h[1..k] that carry the measurement id of h[k]
SameMeasurement(h, k) ==
    {j \in 1..k : h[j].measurement_id = h[k].measurement_id}

ReportMatches(i, idx) ==
    LET h == history[i]
        k == Len(h)
    IN /\ reports[i].some
       /\ reports[i].measurement_id = h[k].measurement_id
       /\ reports[i].is_complete = h[k].end_of_measurement
       /\ reports[i].sent_probes = SumSent(h, idx)

\* C8: with a gateway configured, the report made after a batch
\* for M carries the sum of the successful sends of all batches for M the
\* loop has accounted so far, and is_complete of that batch.
C8_SumOfAllBatches ==
    GatewayConfigured =>
        \A i \in Instances : history[i] # <<>> =>
            ReportMatches(i, SameMeasurement(history[i], Len(history[i])))

\* C9: once a loop has accounted a batch marked end_of_measurement for M,
\* its counter has no entry for M, with or without a gateway.
C9_CounterCleanup ==
    \A i \in Instances : history[i] # <<>> =>
        LET last == history[i][Len(history[i])]
        IN last.end_of_measurement =>
              ~probes_sent_in_measurement[i][last.measurement_id].present

\* the instance ids bound to interface f, and the loop's integrity setting
BoundIds(f) ==
    {caracat[i].instance_id : i \in {k \in Instances : caracat[k].interface = f}}
ValidUnderSome(f, r) == \E id \in BoundIds(f) : id \in r.valid_for
IntegrityCheck(f) == representative_cfg(f).integrity_check
ToForward(f, r) == IntegrityCheck(f) => ValidUnderSome(f, r)

\* a parsed reply is sent on iff it is to be forwarded, and counted as
\* invalid and kept off the channel otherwise
DemuxDecision ==
    [][\A f \in Interfaces, r \in Replies :
          ReceiveLoopReply(f, r, MaxReplies) =>
             /\ receiver_metrics'.received = receiver_metrics.received + 1
             /\ reply_queue' = reply_queue
             /\ IF ToForward(f, r)
                THEN /\ rpc'[f] = "send" /\ reply'[f] = r
                     /\ receiver_metrics'.invalid = receiver_metrics.invalid
                ELSE /\ rpc'[f] = "recv"
                     /\ receiver_metrics'.invalid = receiver_metrics.invalid + 1]_vars

\* the channel grows only by a reply some loop decided to send on
OnlyAcceptedForwarded ==
    [][\A r \in Replies :
          reply_queue' = Append(reply_queue, r) =>
             \E f \in Interfaces :
                rpc[f] = "send" /\ reply[f] = r /\ ToForward(f, r)]_vars

SendEnds(f) == rpc[f] = "send" /\ rpc'[f] # "send"

\* C10 (as stated): with integrity_check enabled a parsed reply reaches the
\* reply channel iff it validates under some instance id bound to the
\* interface, every other parsed reply is counted as invalid and kept off
\* the channel; with integrity_check disabled every parsed reply reaches it.
C10_ForwardedIffValid ==
    /\ DemuxDecision
    /\ OnlyAcceptedForwarded
    /\ [][\A f \in Interfaces :
             SendEnds(f) => reply_queue' = Append(reply_queue, reply[f])]_vars

\* C10 (amended): the same while the receiving end of the reply channel
\* exists; once it is gone the reply being sent on is lost, is not counted
\* as invalid, and the loop ends.
C10_ForwardedIffValidWhileOpen ==
    /\ DemuxDecision
    /\ OnlyAcceptedForwarded
    /\ [][\A f \in Interfaces :
             SendEnds(f) =>
                IF reply_open
                THEN /\ reply_queue' = Append(reply_queue, reply[f])
                     /\ rpc'[f] = "recv"
                ELSE /\ reply_queue' = reply_queue
                     /\ rpc'[f] = "exited"
                     /\ receiver_metrics' = receiver_metrics]_vars

C10_Witness ==
    /\ Len(caracat) = 2
    /\ caracat[1].interface = caracat[2].interface
    /\ caracat[1].instance_id = 0 /\ caracat[2].instance_id = 1
    /\ caracat[1].integrity_check
    /\ reply_open
    /\ rpc["eth0"] = "recv"
    /\ reply_queue = <<Reply({1})>>
    /\ receiver_metrics.received = 2
    /\ receiver_metrics.invalid = 1

\* C11: no payload handed to the publisher is longer than message_max_bytes.
C11_SizeBound ==
    \A k \in 1..Len(published) : PayloadLen(published[k]) <= message_max_bytes

RECURSIVE Flatten(_)
Flatten(msgs) ==
    IF msgs = <<>> THEN <<>> ELSE Head(msgs) \o Flatten(Tail(msgs))

\* how often the reply captured as number k occurs in a sequence of replies
Occurrences(records, k) ==
    Cardinality({j \in 1..Len(records) : records[j].seq = k})

\* the replies still on their way to the producer
InQueue(k) == Occurrences(reply_queue, k) > 0
Pending(k) == \E f \in Interfaces : rpc[f] = "send" /\ reply[f].seq = k
TakenByProducer(k) == k \in 1..nreplies /\ ~InQueue(k) /\ ~Pending(k)

Carried == IF additional_message.some THEN <<additional_message>> ELSE <<>>

\* C12: while the producer runs, every reply it has taken from the reply
\* queue is, once and as a whole record, in a published payload, in the
\* batch being built or held as the carry-over, and no other reply is.
C12_ExactlyOnce ==
    ppc \in {"begin", "collect"} =>
        \A k \in 1..MaxProdReplies :
            /\ Occurrences(Flatten(published) \o final_message \o Carried, k)
                  = (IF TakenByProducer(k) THEN 1 ELSE 0)
            /\ Occurrences(Flatten(published), k) <= 1

C12_Witness ==
    /\ nreplies = 3
    /\ Len(published) = 2
    /\ Len(published[1]) = 2
    /\ Len(Flatten(published)) = 3
    /\ published[2][1].seq = 3
    /\ ppc = "begin"

\* the next reply of the queue does not fit the batch being built
WouldExceed == PayloadLen(Append(final_message, Head(reply_queue))) > message_max_bytes

\* C13: a reply that would take the batch over message_max_bytes is set
\* aside and the batch is published without it; the reply set aside is the
\* first record of the next batch, which is published as built; a reply is
\* held as carry-over only between a flush and the start of the next batch.
C13_CarryOver ==
    /\ [][(ProducerTryRecv /\ WouldExceed) =>
             /\ additional_message' = Head(reply_queue)
             /\ published' = IF final_message = <<>> THEN published
                             ELSE Append(published, final_message)
             /\ ppc' = "begin"]_vars
    /\ [][(ppc = "begin" /\ ppc' = "collect") =>
             /\ final_message' = Carried
             /\ ~additional_message'.some]_vars
    /\ [][(ppc = "collect" /\ final_message # <<>>) =>
             \/ /\ final_message' # <<>>
                /\ Head(final_message') = Head(final_message)
                /\ published' = published
             \/ published' = Append(published, final_message)]_vars
    /\ [](additional_message.some => (ppc = "begin" /\ final_message = <<>>))

C13_Witness ==
    /\ message_max_bytes = 5
    /\ Len(published) = 2
    /\ Len(published[1]) = 2
    /\ published[2][1].seq = 3
    /\ published[2][1].size = 2
    /\ ~additional_message.some

\* replies of one receive loop occur in capture order in a sequence
InCaptureOrder(records) ==
    \A i, j \in 1..Len(records) :
        (i < j /\ records[i].iface = records[j].iface)
            => records[i].seq < records[j].seq

\* what lies between the receive loops and the published output, oldest first
InFlight == final_message \o Carried \o reply_queue

\* C14: the replies of one receive loop are published in capture order, in
\* an earlier payload or earlier in the same payload, and none is published
\* while an earlier reply of the same loop is still on its way.
C14_ReplyOrdering ==
    /\ InCaptureOrder(Flatten(published) \o InFlight)
    /\ \A f \in Interfaces : rpc[f] = "send" =>
          \A j \in 1..Len(Flatten(published) \o InFlight) :
              (Flatten(published) \o InFlight)[j].iface = f
                  => (Flatten(published) \o InFlight)[j].seq < reply[f].seq

C14_Witness ==
    /\ Len(published) = 2
    /\ Len(published[1]) = 2
    /\ published[1][1].iface = "eth0"
    /\ published[1][2].iface = "eth1"
    /\ published[2][1].iface = "eth0"
    /\ published[1][1].seq < published[2][1].seq

\* C15: with out_enable false nothing is published, the reply channel keeps
\* its receiving end once handle() has passed the producer branch, and no
\* receive loop ends because its send on the channel failed.
C15_PublisherDisabled ==
    /\ [](~out_enable => (published = <<>> /\ (hpc = "running" => reply_open)))
    /\ [][\A f \in Interfaces :
             (~out_enable /\ rpc[f] = "send") => rpc'[f] # "exited"]_vars

\* C16: the bytes that serialize_probe yields for a sequence of probes,
\* concatenated, decode to that same sequence in order and in every field;
\* the empty input decodes to the empty sequence.
C16_CodecRoundTrip ==
    /\ deserialize_probes(Bytes(<<>>)) = [ok |-> TRUE, probes |-> <<>>]
    /\ \A ps \in SeqsUpTo(CodecProbes, MaxWire) :
          (dpc = "handle" /\ message.payload = Bytes(EncodeAll(ps)))
              => deserialize_probes(message.payload) = [ok |-> TRUE, probes |-> ps]

\* a message of the stream that is not a complete, well-formed probe record
MalformedRecord(w) ==
    \/ w.frame # "ok"
    \/ w.frame = "ok" /\ (w.protocol = "tcp" \/ w.dst_addr.len # 16)

HasMalformedRecord(payload) ==
    /\ payload.kind = "bytes"
    /\ \E k \in 1..Len(payload.wire) : MalformedRecord(payload.wire[k])

\* C17: a payload with a malformed record (TCP tag, dst_addr not 16 bytes,
\* corrupt or truncated framing) makes deserialize_probes return an error
\* and no probes, and the dispatcher enqueues nothing for that message;
\* a payload of complete well-formed records decodes without error.
C17_DecoderErrors ==
    /\ [](dpc = "handle" /\ HasMalformedRecord(message.payload)
            => deserialize_probes(message.payload) = DecodeError)
    /\ [](dpc = "handle" /\ message.payload.kind = "bytes"
               /\ ~HasMalformedRecord(message.payload)
            => deserialize_probes(message.payload).ok)
    /\ [][dpc = "handle" /\ HasMalformedRecord(message.payload)
            => queues' = queues]_vars

\* the message has a header whose key is the agent id
Addressed(m) == \E k \in 1..Len(m.headers) : m.headers[k].key = AgentId

\* the message carries measurement id `id`: in the JSON of the agent's
\* header or in a top-level header
CarriesMeasurementId(m, id) ==
    \E k \in 1..Len(m.headers) :
        \/ /\ m.headers[k].key = AgentId
           /\ m.headers[k].value.kind = "json"
           /\ m.headers[k].value.measurement_id = id
        \/ /\ m.headers[k].key = "measurement_id"
           /\ m.headers[k].value = Text(id)

\* the boolean the message carries as end_of_measurement, false if none
CarriedEnd(m) ==
    \E k \in 1..Len(m.headers) :
        \/ /\ m.headers[k].key = AgentId
           /\ m.headers[k].value.kind = "json"
           /\ m.headers[k].value.end_of_measurement = "true"
        \/ /\ m.headers[k].key = "end_of_measurement"
           /\ m.headers[k].value = Text("true")

\* the batch the step puts on a send queue equals b
Enqueues(b) ==
    \E i \in Instances : queues'[i] = Append(queues[i], b)
EnqueuesSome == \E i \in Instances : Len(queues'[i]) > Len(queues[i])

\* C18: a message addressed to the agent that carries a measurement id is
\* forwarded with measurement_info present, holding that id and the carried
\* end_of_measurement, false when none is carried.
C18_MeasurementMetadata ==
    [][\A id \in MeasurementIds :
          (dpc = "handle" /\ Addressed(message) /\ EnqueuesSome
             /\ CarriesMeasurementId(message, id))
          => \E b \in {queues'[i][Len(queues'[i])] : i \in {j \in Instances : Len(queues'[j]) > Len(queues[j])}} :
                b.measurement_info = Info(id, CarriedEnd(message))]_vars

\* the value of the header keyed by the agent id is missing, not UTF-8 or
\* not a JSON text
MalformedAgentHeader(m) ==
    \E k \in 1..Len(m.headers) :
        /\ m.headers[k].key = AgentId
        /\ m.headers[k].value.kind \in {"absent", "not_utf8", "text"}

\* C19: a message addressed to the agent whose header value is missing, not
\* UTF-8 or not JSON is acknowledged and skipped: the step that handles it
\* commits it, enqueues nothing and returns to receiving.
C19_MalformedHeader ==
    [][(dpc = "handle" /\ MalformedAgentHeader(message))
          => (queues' = queues /\ commits' = commits + 1 /\ dpc' = "recv")]_vars

\* the protocol of a probe matches the family of its destination
FamilyMatches(p) ==
    /\ p.protocol = "ICMP" => p.dst_addr.fam = 4
    /\ p.protocol = "ICMPv6" => p.dst_addr.fam = 6

AllFamilyMatch(ps) == \A k \in 1..Len(ps) : FamilyMatches(ps[k])

\* C20: every probe read_probes_from_csv accepts and every probe
\* deserialize_probes returns has ICMP only with an IPv4 destination and
\* ICMPv6 only with an IPv6 destination.
C20_ProbeWellFormed ==
    /\ \A records \in CsvFiles :
          (/\ dpc = "handle"
           /\ read_probes_from_csv(records).ok
           /\ message = ClientMessage(read_probes_from_csv(records).probes))
              => AllFamilyMatch(read_probes_from_csv(records).probes)
    /\ (dpc = "handle" /\ deserialize_probes(message.payload).ok)
          => AllFamilyMatch(deserialize_probes(message.payload).probes)

\* no send loop and no receive loop exists
NoLoops == spc = <<>> /\ DOMAIN rpc = {}

\* C21: when the configuration has no probing instance the agent refuses to
\* start: no send loop or receive loop is ever created, the agent never
\* reaches its setup or its main loop, and startup ends with an error.
C21_EmptyInstanceListFatal ==
    [](raw_caracat = <<>>
         => /\ NoLoops
            /\ hpc \notin {"setup", "running"}
            /\ (hpc = "exited" => exit_status # "none"))

\* the configuration has one of the fatal errors
ConfigurationFatal ==
    \/ auth_protocol \notin {"PLAINTEXT", "SASL_PLAINTEXT"}
    \/ raw_caracat = <<>>
    \/ ~resolve_address(metrics_address)

\* C22: when the agent ends on a configuration-fatal error (invalid auth
\* protocol, empty instance list, unresolvable metrics address) the process
\* exits with a non-zero status.
C22_ExitStatus ==
    (hpc = "exited" /\ ConfigurationFatal) => exit_status = "nonzero"

\* C23: while a send loop processes a batch, the number of
\* rate_limiter.wait() calls made for it equals the number of successful
\* sends of the batch divided by batch_size, rounded down, whatever the
\* order of successful and failed sends.
C23_PacingCalls ==
    \A i \in Instances :
        spc[i] = "send" => waits[i] = sent_count_batch[i] \div caracat[i].batch_size

\* the probes of ps that pass the TTL filter of cfg
RECURSIVE PassingCount(_, _)
PassingCount(cfg, ps) ==
    IF ps = <<>> THEN 0
    ELSE (IF PassesTtl(cfg, Head(ps)) THEN 1 ELSE 0) + PassingCount(cfg, Tail(ps))

\* C24: while a send loop with its stop flag clear works on a batch, the
\* send attempts made so far plus packets times the surviving probes still
\* to handle stay the same, so a completed batch has made packets attempts
\* per surviving probe; each attempt adds one to sent or to failed, sent in
\* step with sent_count_batch; and the loop leaves the batch only after its
\* last probe, whatever sends failed.
C24_FanOut ==
    [][\A i \in Instances :
          (spc[i] = "send" /\ ~stopped[i]) =>
             /\ SendAttempts(metrics')
                   + caracat[i].packets * PassingCount(caracat[i], batch'[i].probes)
                = SendAttempts(metrics)
                   + caracat[i].packets * PassingCount(caracat[i], batch[i].probes)
             /\ metrics'.sent >= metrics.sent
             /\ metrics'.failed >= metrics.failed
             /\ metrics'.sent - metrics.sent
                   = sent_count_batch'[i] - sent_count_batch[i]
             /\ spc'[i] # "send" => batch[i].probes = <<>>]_vars

C24_Witness ==
    /\ outcome = "queued"
    /\ spc[1] = "wait" /\ ~stopped[1] /\ queues[1] = <<>>
    /\ caracat[1].packets = 2
    /\ caracat[1].max_ttl = SomeTtl(1)
    /\ metrics.filtered_high = 1
    /\ metrics.sent = 1
    /\ metrics.failed = 1

\* C25: with the publisher running, every reply the producer has taken from
\* the reply queue is eventually in a published payload, also when no
\* further reply arrives, and a non-empty batch is eventually flushed.
C25_TimeBasedFlush ==
    /\ \A k \in 1..MaxProdReplies :
          (ppc \in {"begin", "collect"} /\ TakenByProducer(k))
              ~> (Occurrences(Flatten(published), k) = 1)
    /\ (ppc = "collect" /\ final_message # <<>>)
          ~> (ppc = "begin" /\ final_message = <<>>)

\* one small reply was captured, taken and flushed alone although the
\* payload had room for more
C25_Witness ==
    /\ message_max_bytes = 5
    /\ nreplies = 1
    /\ Len(published) = 1
    /\ Len(published[1]) = 1
    /\ published[1][1].size = 1
    /\ reply_queue = <<>>
    /\ ~additional_message.some

\* C26: a send loop whose stop flag stays clear ends only from its wait on
\* the channel, with the channel empty and without a Sender; once no Sender
\* is left every batch still queued is taken by the loop, in order, and the
\* loop then terminates.
C26_SendLoopCloseTermination ==
    /\ [][\A i \in Instances :
             (spc[i] # "exited" /\ spc'[i] = "exited") =>
                 spc[i] = "wait" /\ queues[i] = <<>> /\ ~tx_probe_to_sender[i]]_vars
    /\ [][\A i \in Instances :
             (~tx_probe_to_sender[i] /\ queues'[i] # queues[i]) =>
                 /\ spc[i] = "wait"
                 /\ queues[i] # <<>>
                 /\ queues'[i] = Tail(queues[i])
                 /\ spc'[i] = "wait" \/ batch'[i] = Head(queues[i])]_vars
    /\ \A i \in 1..MaxInst :
          (i \in Instances /\ ~tx_probe_to_sender[i])
              ~> (i \in Instances /\ spc[i] = "exited")

\* both loops have ended, the duplicate one without a batch and the first
\* one after two batches of two probes
C26_Witness ==
    /\ Len(caracat) = 2
    /\ spc[1] = "exited" /\ spc[2] = "exited"
    /\ ~stopped[1] /\ ~stopped[2]
    /\ nrecv = 2
    /\ SendAttempts(metrics) = 4

\* C27: once the stop flag of a send loop is set, the loop thread ends, so
\* that the join of stop() returns, wherever the loop was.
C27_SendLoopStop ==
    \A i \in 1..MaxInst :
        (i \in Instances /\ stopped[i])
            ~> (i \in Instances /\ spc[i] = "exited")

\* C28: once the receiving end of the reply channel is gone, no reply is
\* added to the channel and every receive loop ends.
C28_ReceiveLoopCloseTermination ==
    /\ [][~reply_open => reply_queue' = reply_queue]_vars
    /\ \A f \in InterfaceNames :
          (f \in Interfaces /\ ~reply_open)
              ~> (f \in Interfaces /\ rpc[f] = "exited")

\* C29: once every receive loop has ended and the reply channel is empty,
\* the running producer hands its pending batch to producer.send and leaves
\* its loop.
C29_ProducerTermination ==
    (/\ ppc \in {"begin", "collect"}
     /\ reply_queue = <<>>
     /\ \A f \in Interfaces : rpc[f] = "exited")
        ~> (/\ ppc \notin {"begin", "collect"}
            /\ final_message = <<>>
            /\ ~additional_message.some)

\* C30: a send loop that fails to obtain the CaracatSender for the key of
\* its batch emits no packet, leaves its cache as it was, without the key,
\* drops the batch and returns to its wait with the queued batches in
\* place; a batch taken while its key is not cached goes to construction;
\* packets are only attempted by a loop holding a cached sender.
C30_SenderCreateFailure ==
    /\ [][\A i \in Instances :
             (spc[i] = "create" /\ spc'[i] \notin {"create", "send"}) =>
                 /\ metrics' = metrics
                 /\ caracat_senders'[i] = caracat_senders[i]
                 /\ SenderKeyOf(batch[i].source_ip) \notin caracat_senders'[i]
                 /\ spc'[i] = "wait"
                 /\ batch'[i] = NoBatch
                 /\ queues'[i] = queues[i]]_vars
    /\ [][\A i \in Instances :
             (/\ spc[i] = "wait" /\ spc'[i] \notin {"wait", "exited"}
              /\ SenderKeyOf(Head(queues[i]).source_ip) \notin caracat_senders[i])
                 => spc'[i] = "create"]_vars
    /\ [][metrics' # metrics =>
             \E i \in Instances :
                 /\ spc[i] = "send"
                 /\ SenderKeyOf(batch[i].source_ip) \in caracat_senders[i]]_vars

\* both messages were queued and the first batch was taken; nothing was
\* attempted and nothing is cached, so its construction failed, and the
\* second batch, with the same key, is in construction
C30_Witness ==
    /\ Len(caracat) = 1
    /\ nrecv = 2 /\ dpc = "recv"
    /\ tx_probe_to_sender[1]
    /\ spc[1] = "create"
    /\ queues[1] = <<>>
    /\ caracat_senders[1] = {}
    /\ SendAttempts(metrics) = 0

Sent(req) == \E k \in 1..Len(requests) : requests[k].req = req
RegisterResults ==
    {requests[k].res : k \in {j \in 1..Len(requests) : requests[j].req = "register"}}
\* a register POST that did not go on ended the iteration: nothing follows
\* it and the task is in its 30 s wait or past it
RegisterEnds(good) ==
    \A k \in 1..Len(requests) :
        (requests[k].req = "register" /\ requests[k].res \notin good) =>
            k = Len(requests) /\ gpc \in {"sleep", "get"}
IterationShape(good) ==
    /\ (Sent("config") \/ Sent("health")) =>
           /\ requests[1].req = "get" /\ requests[1].res # "error"
           /\ RegisterResults \subseteq good
    /\ RegisterEnds(good)

\* C31 (as stated): in an iteration of the healthcheck task the config and
\* health POSTs are sent only after a GET without network error and, if a
\* register POST was sent, after its success status; a register POST with
\* any other outcome is the last request of its iteration; an iteration
\* starts only from the 30 s wait.
C31_IterationAbandonment ==
    /\ [](gpc # "off" => IterationShape({"success"}))
    /\ [][gpc' = "get" => gpc \in {"get", "sleep"}]_vars

\* C31 (amended): the same with 409 Conflict counted like a success status
\* of the register POST.
C31_IterationAbandonmentOrConflict ==
    /\ [](gpc # "off" => IterationShape({"success", "conflict"}))
    /\ [][gpc' = "get" => gpc \in {"get", "sleep"}]_vars

C31_Witness ==
    /\ niter = 2
    /\ gpc = "sleep"
    /\ Len(requests) = 4
    /\ requests[2] = Request("register", "conflict")
    /\ requests[4].req = "health"

RECURSIVE Concat(_)
Concat(msgs) == IF msgs = <<>> THEN <<>> ELSE Head(msgs) \o Concat(Tail(msgs))

\* C32: create_messages returns whole encoded probes, in input order and
\* none missing or added; no message is longer than message_max_bytes when
\* no single encoded probe is; no probe gives no message.
C32_ClientPacking ==
    cpc # "start" =>
        /\ Concat(messages) = EncodeAll(client_probes)
        /\ (\A k \in 1..Len(client_probes) :
                WireLen(serialize_probe(client_probes[k])) <= client_max_bytes)
              => \A j \in 1..Len(messages) :
                    MessageLen(messages[j]) <= client_max_bytes
        /\ client_probes = <<>> => messages = <<>>

\* three probes were packed two and one
C32_Witness ==
    /\ cpc = "done"
    /\ Len(client_probes) = 3
    /\ client_max_bytes = 100
    /\ Len(messages) = 2
    /\ Len(messages[1]) = 2 /\ Len(messages[2]) = 1

\* C33: of the messages the client has sent, in order, the last of the
\* measurement carries end_of_measurement "true" and every earlier one
\* carries "false".
C33_EndOfMeasurementMarking ==
    \A k \in 1..Len(client_sent) :
        /\ client_sent[k].payload = messages[k]
        /\ client_sent[k].end_of_measurement =
              (IF k = Len(messages) THEN "true" ELSE "false")

\* three messages were sent and the loop is over
C33_Witness ==
    /\ cpc = "done"
    /\ Len(messages) = 3
    /\ Len(client_sent) = 3
    /\ client_sent[3].end_of_measurement = "true"
    /\ client_sent[1].end_of_measurement = "false"

\* C40: create_messages returns no empty message, whatever the size of an
\* encoded probe against message_max_bytes.
C40_NoEmptyMessage ==
    \A j \in 1..Len(messages) : messages[j] # <<>>

\* C34: once a send loop has reported measurement M with is_complete = true,
\* its next report for M is again is_complete = true and carries no smaller
\* sent_probes, also when a further batch for M reaches the loop.
C34_CompletionFinal ==
    [][\A i \in 1..MaxInst :
          (/\ i \in Instances
           /\ reports[i].some /\ reports[i].is_complete
           /\ reports'[i] # reports[i]
           /\ reports'[i].measurement_id = reports[i].measurement_id)
          => /\ reports'[i].is_complete
             /\ reports'[i].sent_probes >= reports[i].sent_probes]_vars

\* the batch b closes measurement m
Closes(b, m) ==
    /\ b.measurement_info.some
    /\ b.measurement_info.measurement_id = m
    /\ b.measurement_info.end_of_measurement
\* the n-th accounted batch of loop i closed m and was reported as complete
ReportedComplete(i, m, n) ==
    /\ i \in Instances
    /\ Len(history[i]) = n
    /\ history[i][n].measurement_id = m /\ history[i][n].end_of_measurement
    /\ reports[i].some /\ reports[i].measurement_id = m /\ reports[i].is_complete

C36_SourceInOwnPrefix ==
    \A i \in Instances :
        (spc[i] \in {"create", "send"} /\ batch[i].source_ip # EmptyIp)
            => InPrefixOf(caracat[i], batch[i].source_ip)

\* some instance bound to interface f enables integrity_check
IntegrityEnabledOn(f) ==
    \E i \in Instances : caracat[i].interface = f /\ caracat[i].integrity_check

\* C37: when an instance bound to the interface enables integrity_check, a
\* parsed reply that validates under no instance id bound to the interface
\* is not sent on; replies go on unvalidated only when every bound instance
\* has integrity_check disabled.
C37_IntegrityPerInterface ==
    [][\A f \in Interfaces, r \in Replies :
          (/\ ReceiveLoopReply(f, r, MaxReplies)
           /\ IntegrityEnabledOn(f)
           /\ ~ValidUnderSome(f, r))
          => /\ rpc'[f] # "send"
             /\ reply_queue' = reply_queue]_vars

\* C38: once the stop flag of the send loop is set, no send is attempted
\* for a probe the loop has not begun: the counts of successful and failed
\* sends stay as they are, for the batch in hand and for a batch taken from
\* the queue afterwards (one instance, so the counters are this loop's).
C38_StopBetweenProbes ==
    [][\A i \in 1..MaxInst :
          (i \in Instances /\ stopped[i])
          => /\ metrics'.sent = metrics.sent
             /\ metrics'.failed = metrics.failed
             /\ sent_count_batch'[i] <= sent_count_batch[i]]_vars

\* the flag is set when the first probe of a batch of two has been sent and
\* the second has not been begun
C38_Witness ==
    /\ stopped[1] /\ spc[1] = "send"
    /\ batch[1].probes = <<2>>
    /\ caracat[1].packets = 2
    /\ sent_count_batch[1] = 2
    /\ metrics.sent = 2

\* C39: at the step at which handle() returns its configuration error
\* (invalid auth protocol, empty instance list), no healthcheck task has
\* been spawned and no send loop or receive loop has been created.
C39_ValidationBeforeWorkers ==
    [][(hpc \in {"create", "setup"} /\ hpc' = "exited")
          => /\ spc' = <<>>
             /\ DOMAIN rpc' = {}
             /\ gpc' = "off"]_vars

====
